---- MODULE Spec2Model ----
(***************************************************************************)
(* libguiding: the adaptive 2^D-ary tree (BTreeDistribution, btree.h) and  *)
(* the double-buffered learning wrapper (Wrapper, wrapper.h).              *)
(*                                                                         *)
(* Float values are modelled as exact rationals <<n, d>> in lowest terms   *)
(* with d > 0; <<0, 0>> stands for NaN (the result of 0/0), which          *)
(* propagates through arithmetic and compares false, as IEEE floats do.    *)
(* Node indices and child slots are 0-based as in the source; the pool is  *)
(* a sequence, so node i of the source is nodes[i + 1].                    *)
(***************************************************************************)
EXTENDS Integers, Sequences, FiniteSets, TLC

\* ------------------------------------------------------------ bounds
\* Deposits a behaviour of the tree specification may make.
MaxSplats == 2
\* Calls of build() / refine() a behaviour of the tree specification may make.
MaxRebuilds == 3
\* The value of samplesSoFar up to which the single caller feeds the wrapper.
MaxSamples == 2050
\* Calls of Wrapper::splat the concurrent callers make between them.
MaxCalls == 4
\* Deposits of non-zero weight, calls of sample / pdf, and calls of reset that a
\* behaviour of the wrapper may make (the other deposits have weight 0).
MaxHeavy == 2
MaxReads == 1
MaxResets == 1
\* Callers standing before the lock of step() that a behaviour lets go on.
MaxSteps == 2
\* Activations of refine() the call stack holds.
MaxCallDepth == 8
\* Assignments to the wrapper (operator=) and writes through sampling(), and the
\* calls of splat made around them.
MaxAssigns == 1
MaxAssignCalls == 2

\* ------------------------------------------------------------ Float
RECURSIVE GCD(_, _)
GCD(a, b) == IF b = 0 THEN a ELSE GCD(b, a % b)

Abs(a) == IF a < 0 THEN -a ELSE a

NaN == <<0, 0>>
IsNaN(a) == a[2] = 0

\* The rational n/d in lowest terms, d # 0.
Frac(n, d) ==
    LET g == GCD(Abs(n), Abs(d))
        s == IF d < 0 THEN -1 ELSE 1
    IN  <<(s * n) \div g, (s * d) \div g>>

Zero == <<0, 1>>
One == <<1, 1>>
Half == <<1, 2>>
FromInt(i) == <<i, 1>>

\* Sums, products and comparisons cancel common factors before they multiply,
\* so that intermediate integers stay small.
FAdd(a, b) == IF IsNaN(a) \/ IsNaN(b) THEN NaN
              ELSE LET g == GCD(a[2], b[2])
                   IN  Frac(a[1] * (b[2] \div g) + b[1] * (a[2] \div g),
                            (a[2] \div g) * b[2])
FNeg(a) == <<-a[1], a[2]>>
FSub(a, b) == FAdd(a, FNeg(b))
FMul(a, b) == IF IsNaN(a) \/ IsNaN(b) THEN NaN
              ELSE LET g1 == GCD(Abs(a[1]), b[2])
                       g2 == GCD(Abs(b[1]), a[2])
                   IN  Frac((a[1] \div g1) * (b[1] \div g2),
                            (a[2] \div g2) * (b[2] \div g1))
\* a / b; 0/0 is NaN.  The code never divides a nonzero value by zero.
FDiv(a, b) == IF IsNaN(a) \/ IsNaN(b) \/ b[1] = 0 THEN NaN
              ELSE FMul(a, IF b[1] < 0 THEN <<-b[2], -b[1]>> ELSE <<b[2], b[1]>>)
\* Comparisons: any comparison with NaN is false.
FLt(a, b) == /\ ~IsNaN(a) /\ ~IsNaN(b)
             /\ LET g == GCD(a[2], b[2])
                IN  a[1] * (b[2] \div g) < b[1] * (a[2] \div g)
FLe(a, b) == /\ ~IsNaN(a) /\ ~IsNaN(b)
             /\ LET g == GCD(a[2], b[2])
                IN  a[1] * (b[2] \div g) <= b[1] * (a[2] \div g)
FGt(a, b) == FLt(b, a)
FGe(a, b) == FLe(b, a)
FEq(a, b) == ~IsNaN(a) /\ ~IsNaN(b) /\ a = b
FMax(a, b) == IF FLt(a, b) THEN b ELSE a
FMin(a, b) == IF FLt(b, a) THEN b ELSE a

\* TRUE. TLC evaluates the arguments of an operator on demand; a recursion tests
\* Strict(v) before it hands the accumulator v on, so that v is evaluated then
\* and not inside the evaluations that follow.
Strict(v) == v = v

\* 2^k
RECURSIVE Pow2(_)
Pow2(k) == IF k = 0 THEN 1 ELSE 2 * Pow2(k - 1)

\* Bit d of the integer c (c >> d) & 1.
Bit(c, d) == (c \div Pow2(d)) % 2

\* The integer square root of n >= 0, by bisection of lo .. hi.
RECURSIVE ISqrtIn(_, _, _)
ISqrtIn(n, lo, hi) ==
    IF lo >= hi THEN lo
    ELSE LET mid == (lo + hi + 1) \div 2
         IN  IF mid * mid <= n THEN ISqrtIn(n, mid, hi) ELSE ISqrtIn(n, lo, mid - 1)
ISqrt(n) == ISqrtIn(n, 0, IF n < 46340 THEN n ELSE 46340)

\* Float is the typedef the including program provides; the literals of the
\* sources (0.002f, 0.5f) are single precision, whose significand has 24 bits.
\* Significand is the first integer past the 24-bit significands.
Significand == Pow2(24)

\* m * 2^e as a rational.
Scaled(m, e) == IF e >= 0 THEN FromInt(m * Pow2(e)) ELSE Frac(m, Pow2(-e))

\* Rounding to nearest, ties to even: q holds the digits kept and below them
\* one guard digit, sticky tells whether any digit dropped after it was set.
RoundEven(q, sticky) ==
    LET m == q \div 2
    IN  IF q % 2 = 1 /\ (sticky \/ m % 2 = 1) THEN m + 1 ELSE m

\* Binary long division of r/d (r < d) appending digits to the quotient q until
\* it has 25 digits; s counts the digits appended.
RECURSIVE Widen(_, _, _, _)
Widen(q, r, d, s) ==
    IF q >= Significand THEN [q |-> q, sticky |-> r # 0, s |-> s]
    ELSE IF r >= d - r THEN Widen(2 * q + 1, r - (d - r), d, s + 1)
    ELSE Widen(2 * q, r + r, d, s + 1)

\* Dropping digits of a quotient q of more than 25 digits.
RECURSIVE Narrow(_, _, _)
Narrow(q, sticky, s) ==
    IF q < 2 * Significand THEN [q |-> q, sticky |-> sticky, s |-> s]
    ELSE Narrow(q \div 2, sticky \/ q % 2 = 1, s - 1)

\* The Float nearest to the positive rational a, as significand m and exponent
\* e: the value is m * 2^e.
ToFloat(a) ==
    LET w == Widen(a[1] \div a[2], a[1] % a[2], a[2], 0)
        n == Narrow(w.q, w.sticky, w.s)
    IN  [m |-> RoundEven(n.q, n.sticky), e |-> 1 - n.s]

\* The digits of a square root one at a time: R is the root so far and rem what
\* is left of the radicand, R * R + rem being the radicand times 4^j.
RECURSIVE RootDigits(_, _, _)
RootDigits(R, rem, j) ==
    IF R >= Significand THEN [R |-> R, sticky |-> rem # 0, j |-> j]
    ELSE IF 4 * rem >= 4 * R + 1 THEN RootDigits(2 * R + 1, 4 * rem - (4 * R + 1), j + 1)
    ELSE RootDigits(2 * R, 4 * rem, j + 1)

\* std::sqrt of a Float: of the exact root where it is rational, as every other
\* operation here is exact, and otherwise the Float nearest to the root of the
\* Float nearest to a, which is what std::sqrt returns.
Sqrt(a) ==
    LET rn == ISqrt(a[1])
        rd == ISqrt(a[2])
    IN  IF IsNaN(a) \/ a[1] < 0 THEN NaN
        ELSE IF rn * rn = a[1] /\ rd * rd = a[2] THEN Frac(rn, rd)
        ELSE LET f == ToFloat(a)
                 odd == f.e % 2 # 0
                 M == IF odd THEN 2 * f.m ELSE f.m
                 e == IF odd THEN f.e - 1 ELSE f.e
                 R0 == ISqrt(M)
                 r == RootDigits(R0, M - R0 * R0, 0)
             IN  Scaled(RoundEven(r.R, r.sticky), (e \div 2) + 1 - r.j)

\* ------------------------------------------------------------ state
VARIABLES
    \* BTreeDistribution<D, V>: the template parameter and the settings
    Dimension, m_splitThreshold, m_leafReweighting, m_doFiltering, m_secondMoment,
    \* BTreeDistribution::m_nodes of the tree under test
    m_nodes,
    \* the last operation of the tree under test and what it was given / returned
    op, arg, ret,
    \* splat() and build()/refine() calls made so far
    nSplats, nRebuilds

VARIABLES
    \* Wrapper::settings.uniformProb
    uniformProb,
    \* Wrapper::m_sampling and m_training (their node pools)
    m_sampling, m_training,
    \* Wrapper::m_samplesSoFar (atomic) and m_nextMilestone
    m_samplesSoFar, m_nextMilestone,
    \* Wrapper::m_mutex: the caller holding it exclusively (0: none) and the
    \* callers holding it shared
    m_mutex,
    \* per caller: where it stands in the call it makes, and the arguments,
    \* locals and result of that call
    pc, local,
    \* the training pool as it would be had every splat made its deposit in one
    \* indivisible step (history, read by no action of the wrapper)
    deposited,
    \* the calls the callers may still make, per kind
    quota,
    \* further callers of splat that found their count above the milestone and
    \* stand before the unique_lock of step(), not followed one by one
    waiting,
    \* no deposit was made into the training tree since the last rebuild of
    \* step() refined it (history, read by no action of the wrapper)
    justRefined

VARIABLES
    \* the pool of a second tree of the same settings and structure, given the
    \* deposits of the tree under test in the opposite order
    swapped,
    \* the std::ostream write() was given, and the tree read() filled from it
    stream, loaded

VARIABLES
    \* a refine() under way, one step per activation: the activations of
    \* refine(index, scale) on the call stack, innermost last, and how the call
    \* stands ("idle", "running", "returned", or "exhausted" when the recursion
    \* went deeper than the stack holds)
    callStack, callState

treeVars == <<m_nodes, op, arg, ret, nSplats, nRebuilds>>
ioVars == <<swapped, stream, loaded>>
callVars == <<callStack, callState>>
crowdVars == <<waiting, justRefined>>
settingVars == <<Dimension, m_splitThreshold, m_leafReweighting, m_doFiltering, m_secondMoment>>
wrapperVars == <<uniformProb, m_sampling, m_training, m_samplesSoFar, m_nextMilestone,
                 m_mutex, pc, local, deposited, quota, waiting, justRefined>>
vars == <<settingVars, treeVars, wrapperVars, ioVars, callVars>>

\* ------------------------------------------------------------ TreeNode
Arity == Pow2(Dimension)
Dims == 0 .. Dimension - 1
Slots == 0 .. Arity - 1

\* Node `index` of a pool (0-based, as in the source).
At(nodes, index) == nodes[index + 1]
\* children[child] of a node (0-based).
Child(node, child) == node.children[child + 1]

\* A value-initialised TreeNode (std::vector::resize, Value()).
EmptyNode == [children |-> SubSeq([c \in 1 .. Arity |-> 0], 1, Arity),
              density |-> Zero, value |-> Zero, weight |-> Zero]

isLeaf(node) == node.children[1] = 0

markAsLeaf(node) == [node EXCEPT !.children[1] = 0]

\* guiding::target of a scalar value: the value itself.
Target(value) == value

\* TreeNode::splat assigning the density where it should accumulate it.
NodeSplat_Assign(node, value, weight) ==
    LET t == Target(value)
        target == IF m_secondMoment THEN FMul(t, t) ELSE t
    IN  [node EXCEPT !.weight = FAdd(@, weight),
                     !.value = FAdd(@, FMul(value, weight)),
                     !.density = FMul(target, weight)]

\* TreeNode::splat adding the value without its weight.
NodeSplat_Unweighted(node, value, weight) ==
    LET t == Target(value)
        target == IF m_secondMoment THEN FMul(t, t) ELSE t
    IN  [node EXCEPT !.weight = FAdd(@, weight),
                     !.value = FAdd(@, value),
                     !.density = FAdd(@, FMul(target, weight))]

\* TreeNode::splat
NodeSplat(node, value, weight) ==
    LET t == Target(value)
        target == IF m_secondMoment THEN FMul(t, t) ELSE t
    IN  [node EXCEPT !.weight = FAdd(@, weight),
                     !.value = FAdd(@, FMul(value, weight)),
                     !.density = FAdd(@, FMul(target, weight))]

\* TreeNode::reset leaving the weight.
NodeReset_KeepWeight(node) == [node EXCEPT !.density = Zero, !.value = Zero]

\* TreeNode::reset
NodeReset(node) == [node EXCEPT !.density = Zero, !.value = Zero, !.weight = Zero]

\* TreeNode::depth
RECURSIVE NodeDepth(_, _)
NodeDepth(nodes, index) ==
    IF isLeaf(At(nodes, index)) THEN 1
    ELSE LET ds == {NodeDepth(nodes, Child(At(nodes, index), c)) : c \in Slots}
         IN  1 + CHOOSE m \in ds : \A e \in ds : e <= m

\* ------------------------------------------------------------ BTreeDistribution
\* setUniform leaving the weight of node 0 as it was.
setUniform_KeepsWeight(nodes) ==
    LET root == IF Len(nodes) = 0 THEN EmptyNode ELSE At(nodes, 0)
    IN  <<[markAsLeaf(root) EXCEPT !.density = One, !.value = Zero]>>

\* setUniform: resize(1) keeps node 0 (and whatever its children[1..] hold).
setUniform(nodes) ==
    LET root == IF Len(nodes) = 0 THEN EmptyNode ELSE At(nodes, 0)
    IN  <<[markAsLeaf(root) EXCEPT !.density = One, !.value = Zero, !.weight = Zero]>>

\* The slab and the remapped coordinate of one dimension in indexAt.
IndexSlab(xd) == IF FGe(xd, Half) THEN 1 ELSE 0
IndexRemap(xd) == FMul(IF FGe(xd, Half) THEN FSub(xd, Half) ELSE xd, FromInt(2))

\* The childIndex indexAt assembles from the slabs of x.
RECURSIVE ChildIndexOf(_, _)
ChildIndexOf(x, dim) ==
    IF dim = Dimension THEN 0
    ELSE IndexSlab(x[dim + 1]) * Pow2(dim) + ChildIndexOf(x, dim + 1)

\* indexAt(y, depth): the loop from the state (x, index, depth).
RECURSIVE IndexAtFrom(_, _, _, _)
IndexAtFrom(nodes, x, index, depth) ==
    IF isLeaf(At(nodes, index)) THEN [index |-> index, depth |-> depth]
    ELSE IndexAtFrom(nodes,
                     [d \in 1 .. Dimension |-> IndexRemap(x[d])],
                     Child(At(nodes, index), ChildIndexOf(x, 0)),
                     depth + 1)

indexAt(nodes, y) == IndexAtFrom(nodes, y, 0, 0)

\* BTreeDistribution::pdf
pdf(nodes, x) == At(nodes, indexAt(nodes, x).index).density

\* BTreeDistribution::at
at(nodes, x) == At(nodes, indexAt(nodes, x).index).value

\* computeOverlap<D>: the product over the dimensions of the clipped overlap.
RECURSIVE OverlapFrom(_, _, _, _, _)
OverlapFrom(i, min1, max1, min2, max2) ==
    IF i = Dimension THEN One
    ELSE FMul(FMax(FSub(FMin(max1[i + 1], max2[i + 1]), FMax(min1[i + 1], min2[i + 1])), Zero),
              OverlapFrom(i + 1, min1, max1, min2, max2))

computeOverlap(min1, max1, min2, max2) == OverlapFrom(0, min1, max1, min2, max2)

\* childMin of splatFiltered: nodeMin moved by childSize along the set bits.
ChildMin(nodeMin, childSize, child) ==
    [d \in 1 .. Dimension |->
        IF Bit(child, d - 1) = 1 THEN FAdd(nodeMin[d], childSize) ELSE nodeMin[d]]

\* splatFiltered, and its loop over the children from `child` on.
RECURSIVE splatFiltered(_, _, _, _, _, _, _, _)
RECURSIVE SplatChildren(_, _, _, _, _, _, _, _, _)
splatFiltered(nodes, index, originMin, originMax, nodeMin, nodeSize, value, weight) ==
    LET nodeMax == [d \in 1 .. Dimension |-> FAdd(nodeMin[d], nodeSize)]
        overlap == computeOverlap(originMin, originMax, nodeMin, nodeMax)
    IN  IF ~FGt(overlap, Zero) THEN nodes
        ELSE IF isLeaf(At(nodes, index))
        THEN [nodes EXCEPT ![index + 1] = NodeSplat(@, value, FMul(weight, overlap))]
        ELSE SplatChildren(nodes, index, 0, originMin, originMax, nodeMin, nodeSize, value, weight)

SplatChildren(nodes, index, child, originMin, originMax, nodeMin, nodeSize, value, weight) ==
    IF child = Arity THEN nodes
    ELSE LET childSize == FDiv(nodeSize, FromInt(2))
             after == splatFiltered(nodes, Child(At(nodes, index), child),
                                    originMin, originMax,
                                    ChildMin(nodeMin, childSize, child), childSize,
                                    value, weight)
         IN  IF Strict(after)
             THEN SplatChildren(after, index, child + 1, originMin, originMax,
                                nodeMin, nodeSize, value, weight)
             ELSE nodes

\* BTreeDistribution::splat
splat(nodes, x, value, weight) ==
    IF ~m_doFiltering
    THEN [nodes EXCEPT ![indexAt(nodes, x).index + 1] = NodeSplat(@, value, weight)]
    ELSE LET depth == indexAt(nodes, x).depth
             size == Frac(1, Pow2(depth))
             originMin == [d \in 1 .. Dimension |-> FSub(x[d], FDiv(size, FromInt(2)))]
             originMax == [d \in 1 .. Dimension |-> FAdd(x[d], FDiv(size, FromInt(2)))]
             zero == [d \in 1 .. Dimension |-> Zero]
         IN  splatFiltered(nodes, 0, originMin, originMax, zero, One,
                           value, FDiv(weight, FMul(size, size)))

\* The weight below which build() takes a leaf to have received too few samples.
MinWeight == Frac(1, 1000)
\* The marker build() writes into the weight of an invalid node.
Invalid == FromInt(-1)

\* build on a leaf that takes a leaf to have received too few samples when it
\* has no weight, in place of a weight below 1e-3.
BuildLeaf_CutsEmpty(node, newNodes, newIndex, scale) ==
    IF m_leafReweighting /\ FLe(node.weight, Zero)
    THEN [newNodes EXCEPT ![newIndex + 1].weight = Invalid]
    ELSE LET w == IF m_leafReweighting THEN FDiv(One, node.weight) ELSE FromInt(scale)
             density == FMul(node.density, w)
         IN  [newNodes EXCEPT ![newIndex + 1] =
                 [markAsLeaf(@) EXCEPT
                     !.density = IF m_secondMoment THEN Sqrt(density) ELSE density,
                     !.value = FMul(node.value, w),
                     !.weight = node.weight]]

\* build(index, newNodes, scale) on a leaf, the node already pushed at newIndex.
BuildLeaf(node, newNodes, newIndex, scale) ==
    IF m_leafReweighting /\ FLt(node.weight, MinWeight)
    THEN [newNodes EXCEPT ![newIndex + 1].weight = Invalid]
    ELSE LET w == IF m_leafReweighting THEN FDiv(One, node.weight) ELSE FromInt(scale)
             density == FMul(node.density, w)
         IN  [newNodes EXCEPT ![newIndex + 1] =
                 [markAsLeaf(@) EXCEPT
                     !.density = IF m_secondMoment THEN Sqrt(density) ELSE density,
                     !.value = FMul(node.value, w),
                     !.weight = node.weight]]

\* The end of build on an internal node that marks a partially valid node as a
\* leaf but leaves its subtree in the pool.
BuildFinish_NoTruncate(acc, newIndex) ==
    LET validCount == IF ~m_leafReweighting THEN 4 ELSE acc.validCount
    IN  IF validCount = 0
        THEN [acc.newNodes EXCEPT ![newIndex + 1].weight = Invalid]
        ELSE LET set == [acc.newNodes EXCEPT ![newIndex + 1] =
                            [@ EXCEPT !.density = FDiv(acc.density, FromInt(validCount)),
                                      !.value = FDiv(acc.value, FromInt(validCount)),
                                      !.weight = acc.weight]]
             IN  IF validCount < Arity
                 THEN [set EXCEPT ![newIndex + 1] = markAsLeaf(@)]
                 ELSE set

\* What build() does with an internal node once its children are built: acc holds
\* the new pool and the validCount, density, weight and value of the loop.
BuildFinish(acc, newIndex) ==
    LET validCount == IF ~m_leafReweighting THEN 4 ELSE acc.validCount
    IN  IF validCount = 0
        THEN [acc.newNodes EXCEPT ![newIndex + 1].weight = Invalid]
        ELSE LET set == [acc.newNodes EXCEPT ![newIndex + 1] =
                            [@ EXCEPT !.density = FDiv(acc.density, FromInt(validCount)),
                                      !.value = FDiv(acc.value, FromInt(validCount)),
                                      !.weight = acc.weight]]
             IN  IF validCount < Arity
                 THEN [SubSeq(set, 1, newIndex + 1) EXCEPT ![newIndex + 1] = markAsLeaf(@)]
                 ELSE set

\* build(index, newNodes, scale), and its loop over the children from `child` on.
RECURSIVE BuildNode(_, _, _, _)
RECURSIVE BuildChildren(_, _, _, _, _, _)
\* The loop of build over the children registering each child one index late.
BuildChildren_LinksNext(nodes, node, newIndex, child, scale, acc) ==
    IF child = Arity THEN acc
    ELSE LET newChildIndex == Len(acc.newNodes)
             built == BuildNode(nodes, Child(node, child), acc.newNodes, scale * Arity)
             linked == [built EXCEPT ![newIndex + 1].children[child + 1] = newChildIndex + 1]
             newChild == At(linked, newChildIndex)
             valid == FGe(newChild.weight, Zero)
             next == [newNodes |-> linked,
                      validCount |-> IF valid THEN acc.validCount + 1 ELSE acc.validCount,
                      density |-> IF valid THEN FAdd(acc.density, newChild.density) ELSE acc.density,
                      value |-> IF valid THEN FAdd(acc.value, newChild.value) ELSE acc.value,
                      weight |-> IF valid THEN FAdd(acc.weight, newChild.weight) ELSE acc.weight]
         IN  IF Strict(next)
             THEN BuildChildren(nodes, node, newIndex, child + 1, scale, next)
             ELSE acc

BuildNode(nodes, index, newNodes, scale) ==
    LET node == At(nodes, index)
        newIndex == Len(newNodes)
        pushed == Append(newNodes, node)
    IN  IF isLeaf(node) THEN BuildLeaf(node, pushed, newIndex, scale)
        ELSE BuildFinish(
                 BuildChildren(nodes, node, newIndex, 0, scale,
                               [newNodes |-> pushed, validCount |-> 0,
                                density |-> Zero, weight |-> Zero, value |-> Zero]),
                 newIndex)

BuildChildren(nodes, node, newIndex, child, scale, acc) ==
    IF child = Arity THEN acc
    ELSE LET newChildIndex == Len(acc.newNodes)
             built == BuildNode(nodes, Child(node, child), acc.newNodes, scale * Arity)
             linked == [built EXCEPT ![newIndex + 1].children[child + 1] = newChildIndex]
             newChild == At(linked, newChildIndex)
             valid == FGe(newChild.weight, Zero)
             next == [newNodes |-> linked,
                      validCount |-> IF valid THEN acc.validCount + 1 ELSE acc.validCount,
                      density |-> IF valid THEN FAdd(acc.density, newChild.density) ELSE acc.density,
                      value |-> IF valid THEN FAdd(acc.value, newChild.value) ELSE acc.value,
                      weight |-> IF valid THEN FAdd(acc.weight, newChild.weight) ELSE acc.weight]
         IN  IF Strict(next)
             THEN BuildChildren(nodes, node, newIndex, child + 1, scale, next)
             ELSE acc

\* The normalisation that ends build(): every density over the root's, and with
\* naive building every value over the root's weight.
Normalize(newNodes) ==
    LET norm == At(newNodes, 0).density
        rootWeight == At(newNodes, 0).weight
    IN  SubSeq([i \in 1 .. Len(newNodes) |->
                   [newNodes[i] EXCEPT
                       !.density = FDiv(@, norm),
                       !.value = IF ~m_leafReweighting THEN FDiv(@, rootWeight) ELSE @]],
               1, Len(newNodes))

\* build() without the return to the uniform tree when nothing was deposited.
build_NoFallback(nodes) == Normalize(BuildNode(nodes, 0, <<>>, 1))

\* BTreeDistribution::build()
build(nodes) ==
    LET newNodes == BuildNode(nodes, 0, <<>>, 1)
    IN  IF FLe(At(newNodes, 0).weight, Zero) \/ FEq(At(newNodes, 0).density, Zero)
        THEN setUniform(nodes)
        ELSE Normalize(newNodes)

\* BTreeDistribution::split
split(nodes, parentIndex) ==
    LET childIndex == Len(nodes)
        parent == At(nodes, parentIndex)
        children == SubSeq([c \in 1 .. Arity |-> childIndex + c - 1], 1, Arity)
    IN  [nodes EXCEPT ![parentIndex + 1].children = children]
            \o SubSeq([c \in 1 .. Arity |-> parent], 1, Arity)

\* BTreeDistribution::refine(index, scale), and its loop over the children.
RECURSIVE refineFrom(_, _, _)
RECURSIVE RefineChildren(_, _, _, _)
refineFrom(nodes, index, scale) ==
    IF isLeaf(At(nodes, index))
    THEN IF FGe(FDiv(At(nodes, index).density, FromInt(scale)), m_splitThreshold)
         THEN RefineChildren(split(nodes, index), index, 0, scale)
         ELSE [nodes EXCEPT ![index + 1] = NodeReset(@)]
    ELSE RefineChildren(nodes, index, 0, scale)

RefineChildren(nodes, index, child, scale) ==
    IF child = Arity THEN nodes
    ELSE LET after == refineFrom(nodes, Child(At(nodes, index), child), scale * Arity)
         IN  IF Strict(after) THEN RefineChildren(after, index, child + 1, scale) ELSE nodes

refine(nodes) == refineFrom(nodes, 0, 1)

\* The marginal p[b] of sample(): the sum of the densities of the children ci =
\* (child << dim) | childIndex with child & 1 = b, for child from `child` on.
RECURSIVE Marginal(_, _, _, _, _, _)
Marginal(nodes, index, childIndex, dim, b, child) ==
    IF child = Pow2(Dimension - dim) THEN Zero
    ELSE LET ci == child * Pow2(dim) + childIndex
             rest == Marginal(nodes, index, childIndex, dim, b, child + 1)
         IN  IF child % 2 = b
             THEN FAdd(At(nodes, Child(At(nodes, index), ci)).density, rest)
             ELSE rest

\* The assertions of sample(), which are compiled in: the call that fails one
\* aborts the program and returns nothing.  The outcome of a call names the
\* assertion that failed ("" when the call returned).
Returned == ""
MarginalsFail == "p[0] >= 0 && p[1] >= 0"
DescentFails == "newIndex > index"
DensityFails == "m_nodes[index].density > 0"

\* One level of sample(): the loop over the dimensions from `dim` on, on the state
\* s = [x, base, childIndex, aborted]; the loop ends at the assertion that fails.
RECURSIVE SampleDims(_, _, _, _, _)
SampleDims(nodes, index, scale, dim, s) ==
    IF dim = Dimension THEN s
    ELSE LET p0sum == Marginal(nodes, index, s.childIndex, dim, 0, 0)
             p1sum == Marginal(nodes, index, s.childIndex, dim, 1, 0)
             p0 == FDiv(p0sum, FAdd(p0sum, p1sum))
             xd == s.x[dim + 1]
             slab == IF FGt(xd, p0) THEN 1 ELSE 0
             next == [x |-> [s.x EXCEPT ![dim + 1] =
                                IF slab = 1 THEN FDiv(FSub(xd, p0), FSub(One, p0))
                                ELSE FDiv(xd, p0)],
                      base |-> [s.base EXCEPT ![dim + 1] =
                                IF slab = 1 THEN FAdd(@, FMul(Half, scale)) ELSE @],
                      childIndex |-> s.childIndex + slab * Pow2(dim),
                      aborted |-> Returned]
         IN  IF ~(FGe(p0, Zero) /\ FGe(p1sum, Zero))
             THEN [s EXCEPT !.aborted = MarginalsFail]
             ELSE IF Strict(next) THEN SampleDims(nodes, index, scale, dim + 1, next)
             ELSE s

\* sample(): the descent from node `index`, then the leaf; SampleInto is the end
\* of one level, s being what the loop over the dimensions left.
RECURSIVE SampleFrom(_, _, _, _, _)
SampleInto(nodes, index, newIndex, scale, s) ==
    IF s.aborted # Returned THEN [aborted |-> s.aborted, index |-> index]
    ELSE IF ~(newIndex > index) THEN [aborted |-> DescentFails, index |-> index]
    ELSE SampleFrom(nodes, newIndex, s.x, s.base, FDiv(scale, FromInt(2)))

SampleFrom(nodes, index, x, base, scale) ==
    IF ~isLeaf(At(nodes, index))
    THEN LET s == SampleDims(nodes, index, scale, 0,
                             [x |-> x, base |-> base, childIndex |-> 0,
                              aborted |-> Returned])
         IN  IF Strict(s)
             THEN SampleInto(nodes, index, Child(At(nodes, index), s.childIndex), scale, s)
             ELSE s
    ELSE IF ~FGt(At(nodes, index).density, Zero)
    THEN [aborted |-> DensityFails, index |-> index]
    ELSE [x |-> [d \in 1 .. Dimension |-> FAdd(FMul(x[d], scale), base[d])],
          pdf |-> FMul(One, At(nodes, index).density),
          index |-> index,
          value |-> At(nodes, index).value,
          aborted |-> Returned]

\* BTreeDistribution::sample: the warped point, the pdf, the leaf and its value.
sample(nodes, x) == SampleFrom(nodes, 0, x, [d \in 1 .. Dimension |-> Zero], One)

\* ------------------------------------------------------------ inputs
\* The points deposited: one in each half of every axis, and the centre.
SplatPoints == [1 .. Dimension -> {Frac(1, 4), Frac(3, 4)}] \cup {[d \in 1 .. Dimension |-> Half]}
\* The random numbers given to sample: the same number on every axis.
SamplePoints == {[d \in 1 .. Dimension |-> c] : c \in {Zero, Frac(1, 4), Half}}
\* Observed values and sample weights of a deposit (both >= 0, as splat asserts).
Values == {Zero, One, FromInt(3)}
Weights == {One}

\* ------------------------------------------------------------ the tree, one caller
\* No wrapper is constructed in the behaviours of the tree on its own.
NoWrapper ==
    /\ uniformProb = Half
    /\ m_sampling = <<>>
    /\ m_training = <<>>
    /\ m_samplesSoFar = 0
    /\ m_nextMilestone = 0
    /\ m_mutex = [writer |-> 0, readers |-> {}]
    /\ pc = <<>>
    /\ local = <<>>
    /\ deposited = <<>>
    /\ quota = <<>>
    /\ waiting = 0
    /\ justRefined = FALSE

\* No second tree, nothing written to a stream and nothing read from one.
NoStream == [state |-> "none", bytes |-> <<>>]
NoneLoaded == [state |-> "none", nodes |-> <<>>]
NoIo ==
    /\ swapped = <<>>
    /\ stream = NoStream
    /\ loaded = NoneLoaded

\* No refine() is followed step by step.
NoCall ==
    /\ callStack = <<>>
    /\ callState = "idle"

\* op is the last operation that wrote the tree, arg the last deposit made since
\* the last refine() and ret the last sample() made since the tree was written
\* (<<>> when there was none).
TreeInit ==
    /\ Dimension \in {1, 2}
    /\ m_splitThreshold \in {One}
    /\ m_leafReweighting \in BOOLEAN
    /\ m_doFiltering \in BOOLEAN
    /\ m_secondMoment \in (IF Dimension = 1 THEN BOOLEAN ELSE {FALSE})
    /\ m_nodes = setUniform(<<>>)
    /\ op = "new"
    /\ arg = <<>>
    /\ ret = <<>>
    /\ nSplats = 0
    /\ nRebuilds = 0
    /\ NoWrapper

Init == TreeInit /\ NoIo /\ NoCall

\* The last sample() failed an assertion: the program was aborted, and nothing
\* is called any more.
Aborted == ret # <<>> /\ ret.aborted # Returned

Splat ==
    /\ ~Aborted
    /\ nSplats < MaxSplats
    /\ \E x \in SplatPoints, value \in Values, weight \in Weights :
        /\ m_nodes' = splat(m_nodes, x, value, weight)
        /\ arg' = [x |-> x, value |-> value, weight |-> weight]
    /\ op' = "splat"
    /\ ret' = <<>>
    /\ nSplats' = nSplats + 1
    /\ UNCHANGED <<settingVars, wrapperVars, ioVars, callVars, nRebuilds>>

Build ==
    /\ ~Aborted
    /\ nRebuilds < MaxRebuilds
    /\ m_nodes' = build(m_nodes)
    /\ op' = "build"
    /\ ret' = <<>>
    /\ nRebuilds' = nRebuilds + 1
    /\ UNCHANGED <<settingVars, wrapperVars, ioVars, callVars, arg, nSplats>>

Refine ==
    /\ ~Aborted
    /\ nRebuilds < MaxRebuilds
    /\ m_nodes' = refine(m_nodes)
    /\ op' = "refine"
    /\ arg' = <<>>
    /\ ret' = <<>>
    /\ nRebuilds' = nRebuilds + 1
    /\ UNCHANGED <<settingVars, wrapperVars, ioVars, callVars, nSplats>>

Sample ==
    /\ ~Aborted
    /\ \E x \in SamplePoints :
        ret' = [in |-> x] @@ sample(m_nodes, x)
    /\ UNCHANGED <<settingVars, wrapperVars, ioVars, callVars, m_nodes, op, arg, nSplats, nRebuilds>>

Next == Splat \/ Build \/ Refine \/ Sample

Spec == Init /\ [][Next]_vars

\* ------------------------------------------------------------ properties of the tree
\* The sum of the densities of the children of node `index`, from `child` on.
RECURSIVE ChildDensitySum(_, _, _)
ChildDensitySum(nodes, index, child) ==
    IF child = Arity THEN Zero
    ELSE FAdd(At(nodes, Child(At(nodes, index), child)).density,
              ChildDensitySum(nodes, index, child + 1))

\* The sum of density times cell volume over the leaves below node `index`, whose
\* cell has volume vol; LeafMassBelow sums it over the children from `child` on.
RECURSIVE LeafMass(_, _, _)
RECURSIVE LeafMassBelow(_, _, _, _)
LeafMass(nodes, index, vol) ==
    IF isLeaf(At(nodes, index)) THEN FMul(At(nodes, index).density, vol)
    ELSE LeafMassBelow(nodes, index, 0, FDiv(vol, FromInt(Arity)))

LeafMassBelow(nodes, index, child, vol) ==
    IF child = Arity THEN Zero
    ELSE FAdd(LeafMass(nodes, Child(At(nodes, index), child), vol),
              LeafMassBelow(nodes, index, child + 1, vol))

Internal(nodes) == {i \in 0 .. Len(nodes) - 1 : ~isLeaf(At(nodes, i))}

\* The tree under test was left by build() and not written since.
Built == op = "build"
\* A sample() was made on the tree build() left.
Sampled == Built /\ ret # <<>>

\* C1: after every build(), the density of the root is 1.
C1_RootDensityOne == Built => At(m_nodes, 0).density = One

\* A build() that normalised a tree of several nodes holding deposits.
C1_Witness ==
    /\ Built /\ nSplats > 0 /\ Len(m_nodes) > 1
    /\ \E i \in 1 .. Len(m_nodes) : m_nodes[i].density # One

\* C2: in the tree left by build(), the density of every internal node is the mean
\* of the densities of its 2^D children, and the leaves' density times volume
\* sums to 1.
C2_MeanOfChildren ==
    Built =>
        /\ \A i \in Internal(m_nodes) :
              ChildDensitySum(m_nodes, i, 0) = FMul(FromInt(Arity), At(m_nodes, i).density)
        /\ LeafMass(m_nodes, 0, One) = One

\* The point sample() returned lies in the unit cube.
InUnitCube(x) == \A d \in 1 .. Dimension : FGe(x[d], Zero) /\ FLt(x[d], One)

\* C3: sample(x) on the tree left by build() returns a point of [0,1)^D inside
\* the cell of the leaf whose density it returns: pdf(point) is the pdf returned.
\* Stated for leaf reweighting, the default, where the densities build() leaves
\* integrate to 1 in every dimension.
C3_SampleInLeaf ==
    (Sampled /\ m_leafReweighting) =>
        /\ ret.aborted = Returned
        /\ InUnitCube(ret.x)
        /\ indexAt(m_nodes, ret.x).index = ret.index
        /\ pdf(m_nodes, ret.x) = ret.pdf

\* C4: sample(x) on the tree left by build() never ends in a leaf of density
\* zero: the pdf it returns is positive (the assertion density > 0 of sample).
\* Stated for leaf reweighting, the default.
C4_SamplePdfPositive ==
    (Sampled /\ m_leafReweighting) => ret.aborted = Returned /\ FGt(ret.pdf, Zero)

\* The weight the leaf of a one-node tree receives from a deposit at x of weight
\* w: w itself without filtering, and with filtering w times the volume of the
\* box of side 1 centred on x that lies in the unit cube.
DepositedWeight(x, w) ==
    IF ~m_doFiltering THEN w
    ELSE FMul(w, computeOverlap([d \in 1 .. Dimension |-> FSub(x[d], Half)],
                                [d \in 1 .. Dimension |-> FAdd(x[d], Half)],
                                [d \in 1 .. Dimension |-> Zero],
                                [d \in 1 .. Dimension |-> One]))

\* The behaviour so far is: construction, one splat, build.
OneSplatThenBuild == op = "build" /\ nSplats = 1 /\ nRebuilds = 1

\* C10 as stated: construction, one splat at x of weight w, build leaves one
\* node with the observed value, weight w and density 1.
C10_AsStated ==
    OneSplatThenBuild =>
        /\ Len(m_nodes) = 1
        /\ m_nodes[1].value = arg.value
        /\ m_nodes[1].weight = arg.weight
        /\ m_nodes[1].density = One

\* C10 amended: construction, one splat at x of weight w, build, where the weight
\* w' the leaf received (DepositedWeight) is at least 1e-3, leaves one node with
\* the observed value, weight w' and density 1.
C10_OneSplatBuild ==
    (OneSplatThenBuild /\ FGe(DepositedWeight(arg.x, arg.weight), MinWeight)) =>
        /\ Len(m_nodes) = 1
        /\ m_nodes[1].value = arg.value
        /\ m_nodes[1].weight = DepositedWeight(arg.x, arg.weight)
        /\ m_nodes[1].density = One

\* One filtered deposit off the centre, kept by build(): the leaf's weight is
\* less than the weight deposited.
C10_Witness ==
    /\ OneSplatThenBuild /\ m_doFiltering
    /\ FGt(arg.value, Zero)
    /\ m_nodes[1].value = arg.value
    /\ FLt(m_nodes[1].weight, arg.weight)

\* ------------------------------------------------------------ Wrapper
\* The milestone reset() sets.
FirstMilestone == 1024

\* The leaves splatFiltered reaches from node `index`, in the order it visits
\* them, each with the weight it hands to TreeNode::splat.
RECURSIVE FilteredLeaves(_, _, _, _, _, _, _)
RECURSIVE FilteredChildren(_, _, _, _, _, _, _, _)
FilteredLeaves(nodes, index, originMin, originMax, nodeMin, nodeSize, weight) ==
    LET nodeMax == [d \in 1 .. Dimension |-> FAdd(nodeMin[d], nodeSize)]
        overlap == computeOverlap(originMin, originMax, nodeMin, nodeMax)
    IN  IF ~FGt(overlap, Zero) THEN <<>>
        ELSE IF isLeaf(At(nodes, index))
        THEN <<[index |-> index, weight |-> FMul(weight, overlap)]>>
        ELSE FilteredChildren(nodes, index, 0, originMin, originMax, nodeMin, nodeSize, weight)

FilteredChildren(nodes, index, child, originMin, originMax, nodeMin, nodeSize, weight) ==
    IF child = Arity THEN <<>>
    ELSE LET childSize == FDiv(nodeSize, FromInt(2))
         IN  FilteredLeaves(nodes, Child(At(nodes, index), child), originMin, originMax,
                            ChildMin(nodeMin, childSize, child), childSize, weight)
             \o FilteredChildren(nodes, index, child + 1, originMin, originMax,
                                 nodeMin, nodeSize, weight)

\* The calls of TreeNode::splat that BTreeDistribution::splat(x, value, weight)
\* makes, in order: the node and the weight of each.
SplatLeaves(nodes, x, weight) ==
    IF ~m_doFiltering
    THEN <<[index |-> indexAt(nodes, x).index, weight |-> weight]>>
    ELSE LET depth == indexAt(nodes, x).depth
             size == Frac(1, Pow2(depth))
             originMin == [d \in 1 .. Dimension |-> FSub(x[d], FDiv(size, FromInt(2)))]
             originMax == [d \in 1 .. Dimension |-> FAdd(x[d], FDiv(size, FromInt(2)))]
             zero == [d \in 1 .. Dimension |-> Zero]
         IN  FilteredLeaves(nodes, 0, originMin, originMax, zero, One,
                            FDiv(weight, FMul(size, size)))

\* std::shared_mutex: lock_shared() and lock() return when these hold.
CanLockShared(mutex) == mutex.writer = 0
\* An exclusive lock that does not wait for the shared holders.
CanLockExclusive_IgnoringShared(mutex) == mutex.writer = 0
CanLockExclusive(mutex) == mutex.writer = 0 /\ mutex.readers = {}

\* Wrapper::pdf without the uniform part of the mixture.
WrapperPdf_TreeOnly(sampling, x) ==
    IF FEq(uniformProb, One) THEN One
    ELSE FMul(FSub(One, uniformProb), pdf(sampling, x))

\* Wrapper::pdf
WrapperPdf(sampling, x) ==
    IF FEq(uniformProb, One) THEN One
    ELSE FAdd(uniformProb, FMul(FSub(One, uniformProb), pdf(sampling, x)))

\* The end of Wrapper::sample in the tree branch, s being the outcome of the
\* tree's sample().
AddUniform(s) ==
    IF s.aborted # Returned THEN [aborted |-> s.aborted]
    ELSE [x |-> s.x, pdf |-> FAdd(s.pdf, uniformProb), aborted |-> Returned]

\* Wrapper::sample: the point left in x and the pdf returned, or the assertion
\* of the tree's sample() that failed.
WrapperSample(sampling, x) ==
    IF FEq(uniformProb, One) THEN [x |-> x, pdf |-> One, aborted |-> Returned]
    ELSE IF FLt(x[1], uniformProb)
    THEN LET y == [x EXCEPT ![1] = FDiv(@, uniformProb)]
         IN  [x |-> y,
              pdf |-> FAdd(FMul(FSub(One, uniformProb), pdf(sampling, y)), uniformProb),
              aborted |-> Returned]
    ELSE AddUniform(sample(sampling,
                           [x EXCEPT ![1] = FDiv(FSub(@, uniformProb), FSub(One, uniformProb))]))

\* ------------------------------------------------------------ wrapper inputs
\* Values of settings.uniformProb.
UniformProbs == {Half, One}
\* The samples splatted: the point (aux) and the target of each.
SplatInputs == {[x |-> <<Frac(1, 4)>>, value |-> One],
                [x |-> <<Frac(3, 4)>>, value |-> FromInt(3)]}
\* The points given to Wrapper::sample and Wrapper::pdf.
ReadPoints == {<<Frac(1, 4)>>, <<Frac(3, 4)>>}

\* ------------------------------------------------------------ wrapper, per caller
\* A call is followed statement by statement where another caller can write
\* what it reads or read what it writes: around the lock, in the deposit into a
\* leaf (under the shared lock, with other deposits) and in the counting of
\* samples.  What a call does to the trees and the settings while it holds the
\* lock against every writer of them is one step.  operator= and the writes
\* through sampling() take no lock, and are made between the calls of the only
\* caller of the specification that makes them.
\* The locals of a caller outside any call.
NoLocal == [x |-> <<>>, value |-> Zero, weight |-> Zero, todo |-> <<>>,
            density |-> Zero, count |-> 0, ret |-> <<>>, other |-> <<>>]

Goto(t, label) == pc' = [pc EXCEPT ![t] = label]
\* No assertion has aborted the program.
Running == \A t \in DOMAIN pc : pc[t] # "aborted"
LockShared(t) == m_mutex' = [m_mutex EXCEPT !.readers = @ \cup {t}]
UnlockShared(t) == m_mutex' = [m_mutex EXCEPT !.readers = @ \ {t}]
LockExclusive(t) == m_mutex' = [m_mutex EXCEPT !.writer = t]
UnlockExclusive == m_mutex' = [m_mutex EXCEPT !.writer = 0]

treeFrame == <<settingVars, treeVars, ioVars, callVars, uniformProb>>
\* What reset() and operator= leave alone of it: they write the settings.
assignFrame == <<Dimension, treeVars, ioVars, callVars>>

\* The settings of a tree as constructed.  The literal 0.002f stands for the
\* decimal it is written as.
DefaultSettings ==
    [splitThreshold |-> Frac(2, 1000), leafReweighting |-> TRUE,
     doFiltering |-> TRUE, secondMoment |-> FALSE]

\* splat(sample, weight): target(sample, aux) is computed before the lock.
CallSplat(t) ==
    /\ pc[t] = "idle"
    /\ quota.splat > 0
    /\ \E s \in SplatInputs, w \in {Zero} \cup (IF quota.heavy > 0 THEN {One} ELSE {}) :
        /\ local' = [local EXCEPT ![t] =
                        [NoLocal EXCEPT !.x = s.x, !.value = Target(s.value), !.weight = w]]
        /\ quota' = [quota EXCEPT !.splat = @ - 1,
                                  !.heavy = IF w = Zero THEN @ ELSE @ - 1]
    /\ Goto(t, "splat_lock")
    /\ UNCHANGED <<treeFrame, crowdVars, m_sampling, m_training, deposited,
                   m_samplesSoFar, m_nextMilestone, m_mutex>>

\* std::shared_lock lock(m_mutex), then m_training.splat descends to the leaves.
SplatLock(t) ==
    /\ pc[t] = "splat_lock"
    /\ CanLockShared(m_mutex)
    /\ LockShared(t)
    /\ local' = [local EXCEPT ![t].todo = SplatLeaves(m_training, local[t].x, local[t].weight)]
    /\ deposited' = splat(deposited, local[t].x, local[t].value, local[t].weight)
    /\ justRefined' = FALSE
    /\ Goto(t, "splat_leaf")
    /\ UNCHANGED <<treeFrame, waiting, m_sampling, m_training, m_samplesSoFar, m_nextMilestone, quota>>

\* TreeNode::splat on the next leaf: the atomic += of weight and of value.  No
\* call that runs under the shared lock reads either, and the additions of
\* other deposits commute with them: the two are one step.
SplatAccumulate(t) ==
    /\ pc[t] = "splat_leaf"
    /\ local[t].todo # <<>>
    /\ LET leaf == Head(local[t].todo)
           added == NodeSplat(EmptyNode, local[t].value, leaf.weight)
       IN  m_training' = [m_training EXCEPT
                             ![leaf.index + 1].weight = FAdd(@, added.weight),
                             ![leaf.index + 1].value = FAdd(@, added.value)]
    /\ Goto(t, "splat_target")
    /\ UNCHANGED <<treeFrame, crowdVars, m_sampling, deposited, m_samplesSoFar, m_nextMilestone,
                   m_mutex, local, quota>>

\* TreeNode::splat on that leaf: guiding::target(value), and the read of density
\* that its (plain Float) += starts with.
SplatTarget(t) ==
    /\ pc[t] = "splat_target"
    /\ local' = [local EXCEPT ![t].density = At(m_training, Head(local[t].todo).index).density]
    /\ Goto(t, "splat_density")
    /\ UNCHANGED <<treeFrame, crowdVars, m_sampling, m_training, deposited, m_samplesSoFar,
                   m_nextMilestone, m_mutex, quota>>

\* TreeNode::splat on that leaf: the write that ends the += of density.
SplatDensity(t) ==
    /\ pc[t] = "splat_density"
    /\ LET leaf == Head(local[t].todo)
           added == NodeSplat(EmptyNode, local[t].value, leaf.weight)
       IN  m_training' = [m_training EXCEPT
                             ![leaf.index + 1].density = FAdd(local[t].density, added.density)]
    /\ local' = [local EXCEPT ![t].todo = Tail(@), ![t].density = Zero]
    /\ Goto(t, "splat_leaf")
    /\ UNCHANGED <<treeFrame, crowdVars, m_sampling, deposited, m_samplesSoFar, m_nextMilestone,
                   m_mutex, quota>>

\* The end of the block of splat: the shared lock is released.
SplatUnlock(t) ==
    /\ pc[t] = "splat_leaf"
    /\ local[t].todo = <<>>
    /\ UnlockShared(t)
    /\ Goto(t, "splat_count")
    /\ UNCHANGED <<treeFrame, crowdVars, m_sampling, m_training, deposited, m_samplesSoFar,
                   m_nextMilestone, local, quota>>

\* ++m_samplesSoFar
SplatCount(t) ==
    /\ pc[t] = "splat_count"
    /\ m_samplesSoFar' = m_samplesSoFar + 1
    /\ local' = [local EXCEPT ![t].count = m_samplesSoFar + 1]
    /\ Goto(t, "splat_check")
    /\ UNCHANGED <<treeFrame, crowdVars, m_sampling, m_training, deposited, m_nextMilestone,
                   m_mutex, quota>>

\* ... > m_nextMilestone: step() or return.
SplatCheck(t) ==
    /\ pc[t] = "splat_check"
    /\ Goto(t, IF local[t].count > m_nextMilestone THEN "step_lock" ELSE "idle")
    /\ local' = [local EXCEPT ![t] = NoLocal]
    /\ UNCHANGED <<treeFrame, crowdVars, m_sampling, m_training, deposited, m_samplesSoFar,
                   m_nextMilestone, m_mutex, quota>>

\* step(): std::unique_lock lock(m_mutex) and the second look at the milestone.
StepLock(t) ==
    /\ pc[t] = "step_lock"
    /\ CanLockExclusive(m_mutex)
    /\ IF m_samplesSoFar < m_nextMilestone
       THEN Goto(t, "idle") /\ UNCHANGED m_mutex
       ELSE Goto(t, "step_build") /\ LockExclusive(t)
    /\ UNCHANGED <<treeFrame, crowdVars, m_sampling, m_training, deposited, m_samplesSoFar,
                   m_nextMilestone, local, quota>>

\* m_training.build(settings.child)
StepBuild(t) ==
    /\ pc[t] = "step_build"
    /\ m_training' = build(m_training)
    /\ deposited' = build(deposited)
    /\ Goto(t, "step_copy")
    /\ UNCHANGED <<treeFrame, crowdVars, m_sampling, m_samplesSoFar, m_nextMilestone, m_mutex,
                   local, quota>>

\* m_sampling = m_training
StepCopy(t) ==
    /\ pc[t] = "step_copy"
    /\ m_sampling' = m_training
    /\ Goto(t, "step_refine")
    /\ UNCHANGED <<treeFrame, crowdVars, m_training, deposited, m_samplesSoFar, m_nextMilestone,
                   m_mutex, local, quota>>

\* m_training.refine(settings.child)
StepRefine(t) ==
    /\ pc[t] = "step_refine"
    /\ m_training' = refine(m_training)
    /\ deposited' = refine(deposited)
    /\ justRefined' = TRUE
    /\ Goto(t, "step_double")
    /\ UNCHANGED <<treeFrame, waiting, m_sampling, m_samplesSoFar, m_nextMilestone, m_mutex,
                   local, quota>>

\* m_nextMilestone *= 2, and the lock is released on return.
StepDouble(t) ==
    /\ pc[t] = "step_double"
    /\ m_nextMilestone' = m_nextMilestone * 2
    /\ UnlockExclusive
    /\ Goto(t, "idle")
    /\ UNCHANGED <<treeFrame, crowdVars, m_sampling, m_training, deposited, m_samplesSoFar,
                   local, quota>>

\* sample(x): returns 1 at once when uniformProb is 1.
CallSample(t) ==
    /\ pc[t] = "idle"
    /\ quota.read > 0
    /\ quota' = [quota EXCEPT !.read = @ - 1]
    /\ \E x \in ReadPoints :
        IF FEq(uniformProb, One)
        THEN /\ local' = [local EXCEPT ![t] =
                    [NoLocal EXCEPT !.ret = [call |-> "sample", in |-> x, x |-> x,
                                             pdf |-> One, aborted |-> Returned]]]
             /\ Goto(t, "idle")
        ELSE /\ local' = [local EXCEPT ![t] = [NoLocal EXCEPT !.x = x]]
             /\ Goto(t, "sample_lock")
    /\ UNCHANGED <<treeFrame, crowdVars, m_sampling, m_training, deposited, m_samplesSoFar,
                   m_nextMilestone, m_mutex>>

SampleLock(t) ==
    /\ pc[t] = "sample_lock"
    /\ CanLockShared(m_mutex)
    /\ LockShared(t)
    /\ Goto(t, "sample_body")
    /\ UNCHANGED <<treeFrame, crowdVars, m_sampling, m_training, deposited, m_samplesSoFar,
                   m_nextMilestone, local, quota>>

\* The end of sample for caller t, r being the outcome.  An assertion that fails
\* in the tree's sample() aborts the program: no caller takes another step, and
\* the lock is never released.
SampleEnds(t, r) ==
    /\ local' = [local EXCEPT ![t] =
                    [NoLocal EXCEPT !.ret = [call |-> "sample", in |-> local[t].x] @@ r]]
    /\ IF r.aborted # Returned
       THEN pc' = [u \in DOMAIN pc |-> "aborted"] /\ UNCHANGED m_mutex
       ELSE UnlockShared(t) /\ Goto(t, "idle")

SampleBody(t) ==
    /\ pc[t] = "sample_body"
    /\ SampleEnds(t, WrapperSample(m_sampling, local[t].x))
    /\ UNCHANGED <<treeFrame, crowdVars, m_sampling, m_training, deposited, m_samplesSoFar,
                   m_nextMilestone, quota>>

\* pdf(x): returns 1 at once when uniformProb is 1.
CallPdf(t) ==
    /\ pc[t] = "idle"
    /\ quota.read > 0
    /\ quota' = [quota EXCEPT !.read = @ - 1]
    /\ \E x \in ReadPoints :
        IF FEq(uniformProb, One)
        THEN /\ local' = [local EXCEPT ![t] =
                    [NoLocal EXCEPT !.ret = [call |-> "pdf", in |-> x, x |-> x, pdf |-> One]]]
             /\ Goto(t, "idle")
        ELSE /\ local' = [local EXCEPT ![t] = [NoLocal EXCEPT !.x = x]]
             /\ Goto(t, "pdf_lock")
    /\ UNCHANGED <<treeFrame, crowdVars, m_sampling, m_training, deposited, m_samplesSoFar,
                   m_nextMilestone, m_mutex>>

PdfLock(t) ==
    /\ pc[t] = "pdf_lock"
    /\ CanLockShared(m_mutex)
    /\ LockShared(t)
    /\ Goto(t, "pdf_body")
    /\ UNCHANGED <<treeFrame, crowdVars, m_sampling, m_training, deposited, m_samplesSoFar,
                   m_nextMilestone, local, quota>>

PdfBody(t) ==
    /\ pc[t] = "pdf_body"
    /\ local' = [local EXCEPT ![t] =
                    [NoLocal EXCEPT !.ret = [call |-> "pdf", in |-> local[t].x, x |-> local[t].x,
                                             pdf |-> WrapperPdf(m_sampling, local[t].x)]]]
    /\ UnlockShared(t)
    /\ Goto(t, "idle")
    /\ UNCHANGED <<treeFrame, crowdVars, m_sampling, m_training, deposited, m_samplesSoFar,
                   m_nextMilestone, quota>>

\* reset()
CallReset(t) ==
    /\ pc[t] = "idle"
    /\ quota.reset > 0
    /\ quota' = [quota EXCEPT !.reset = @ - 1]
    /\ local' = [local EXCEPT ![t] = NoLocal]
    /\ Goto(t, "reset_lock")
    /\ UNCHANGED <<treeFrame, crowdVars, m_sampling, m_training, deposited, m_samplesSoFar,
                   m_nextMilestone, m_mutex>>

ResetLock(t) ==
    /\ pc[t] = "reset_lock"
    /\ CanLockExclusive(m_mutex)
    /\ LockExclusive(t)
    /\ Goto(t, "reset_body")
    /\ UNCHANGED <<treeFrame, crowdVars, m_sampling, m_training, deposited, m_samplesSoFar,
                   m_nextMilestone, local, quota>>

\* m_training = Distribution(), m_sampling = Distribution() and the counters:
\* the trees constructed anew hold the settings of a tree at their defaults.
ResetBody(t) ==
    /\ pc[t] = "reset_body"
    /\ m_training' = setUniform(<<>>)
    /\ m_sampling' = setUniform(<<>>)
    /\ deposited' = setUniform(<<>>)
    /\ m_splitThreshold' = DefaultSettings.splitThreshold
    /\ m_leafReweighting' = DefaultSettings.leafReweighting
    /\ m_doFiltering' = DefaultSettings.doFiltering
    /\ m_secondMoment' = DefaultSettings.secondMoment
    /\ m_samplesSoFar' = 0
    /\ m_nextMilestone' = FirstMilestone
    /\ UnlockExclusive
    /\ Goto(t, "idle")
    /\ UNCHANGED <<assignFrame, uniformProb, crowdVars, local, quota>>

\* ------------------------------------------------------------ wrapper, assignment
\* The settings a tree holds: when a tree is assigned they come with it.
TreeSettings ==
    [splitThreshold |-> m_splitThreshold, leafReweighting |-> m_leafReweighting,
     doFiltering |-> m_doFiltering, secondMoment |-> m_secondMoment]

\* A wrapper as constructed, with uniformProb set to u and the settings of its
\* trees to those of the trees of this one.
Fresh(u) ==
    [uniformProb |-> u, settings |-> TreeSettings,
     sampling |-> setUniform(<<>>), training |-> setUniform(<<>>),
     samplesSoFar |-> 0, nextMilestone |-> FirstMilestone]

\* A wrapper with a uniformProb of 1/4 and trees of the settings of this one,
\* after its first rebuild, one deposit of weight 1 among the samples before it.
Trained ==
    LET built == build(splat(setUniform(<<>>), <<Frac(1, 4)>>, Target(One), One))
    IN  [uniformProb |-> Frac(1, 4), settings |-> TreeSettings,
         sampling |-> built, training |-> refine(built),
         samplesSoFar |-> FirstMilestone + 1, nextMilestone |-> 2 * FirstMilestone]

\* The wrappers assigned to the wrapper: the other of w = other.  The trees of
\* Trained are those of a split threshold of 1.
OtherWrappers ==
    {Fresh(u) : u \in UniformProbs} \cup (IF m_splitThreshold = One THEN {Trained} ELSE {})

\* w = other: operator= takes no lock.
CallAssign(t) ==
    /\ pc[t] = "idle"
    /\ quota.assign > 0
    /\ quota' = [quota EXCEPT !.assign = @ - 1]
    /\ \E o \in OtherWrappers :
        local' = [local EXCEPT ![t] = [NoLocal EXCEPT !.other = o]]
    /\ Goto(t, "assign_settings")
    /\ UNCHANGED <<treeFrame, crowdVars, m_sampling, m_training, deposited, m_samplesSoFar,
                   m_nextMilestone, m_mutex>>

\* settings = other.settings
AssignSettings(t) ==
    /\ pc[t] = "assign_settings"
    /\ uniformProb' = local[t].other.uniformProb
    /\ Goto(t, "assign_sampling")
    /\ UNCHANGED <<settingVars, treeVars, ioVars, callVars, crowdVars, m_sampling, m_training,
                   deposited, m_samplesSoFar, m_nextMilestone, m_mutex, local, quota>>

\* m_sampling = other.m_sampling
AssignSampling(t) ==
    /\ pc[t] = "assign_sampling"
    /\ m_sampling' = local[t].other.sampling
    /\ Goto(t, "assign_training")
    /\ UNCHANGED <<treeFrame, crowdVars, m_training, deposited, m_samplesSoFar,
                   m_nextMilestone, m_mutex, local, quota>>

\* m_training = other.m_training, the settings of the tree with it.
AssignTraining(t) ==
    /\ pc[t] = "assign_training"
    /\ m_training' = local[t].other.training
    /\ deposited' = local[t].other.training
    /\ m_splitThreshold' = local[t].other.settings.splitThreshold
    /\ m_leafReweighting' = local[t].other.settings.leafReweighting
    /\ m_doFiltering' = local[t].other.settings.doFiltering
    /\ m_secondMoment' = local[t].other.settings.secondMoment
    /\ Goto(t, "assign_count")
    /\ UNCHANGED <<assignFrame, uniformProb, crowdVars, m_sampling, m_samplesSoFar,
                   m_nextMilestone, m_mutex, local, quota>>

\* m_samplesSoFar = other.m_samplesSoFar.load()
AssignCount(t) ==
    /\ pc[t] = "assign_count"
    /\ m_samplesSoFar' = local[t].other.samplesSoFar
    /\ Goto(t, "assign_milestone")
    /\ UNCHANGED <<treeFrame, crowdVars, m_sampling, m_training, deposited, m_nextMilestone,
                   m_mutex, local, quota>>

\* m_nextMilestone = other.m_nextMilestone, and the return.
AssignMilestone(t) ==
    /\ pc[t] = "assign_milestone"
    /\ m_nextMilestone' = local[t].other.nextMilestone
    /\ local' = [local EXCEPT ![t] = NoLocal]
    /\ Goto(t, "idle")
    /\ UNCHANGED <<treeFrame, crowdVars, m_sampling, m_training, deposited, m_samplesSoFar,
                   m_mutex, quota>>

\* w.sampling().splat(x, value, weight): sampling() returns the sampling tree by
\* reference, and the caller deposits into it; no lock is taken.
SamplingSplat(t) ==
    /\ pc[t] = "idle"
    /\ quota.assign > 0
    /\ quota' = [quota EXCEPT !.assign = @ - 1]
    /\ \E s \in SplatInputs : m_sampling' = splat(m_sampling, s.x, s.value, One)
    /\ local' = [local EXCEPT ![t] = NoLocal]
    /\ UNCHANGED <<treeFrame, crowdVars, m_training, deposited, m_samplesSoFar,
                   m_nextMilestone, m_mutex, pc>>

\* ------------------------------------------------------------ wrapper specifications
\* Wrapper<S, BTreeDistribution<1, Float>> with the settings of its trees at
\* their defaults, but for the split threshold, which was set to 1 in both
\* (training().splitThreshold() = 1) and keeps the trees small.
WrapperSettings ==
    /\ Dimension = 1
    /\ m_splitThreshold = One
    /\ m_leafReweighting = TRUE
    /\ m_doFiltering = TRUE
    /\ m_secondMoment = FALSE
    /\ uniformProb \in UniformProbs

\* No tree is under test on its own in the behaviours of the wrapper.
NoTree ==
    /\ m_nodes = <<>>
    /\ op = "none"
    /\ arg = <<>>
    /\ ret = <<>>
    /\ nSplats = 0
    /\ nRebuilds = 0
    /\ NoIo /\ NoCall

\* Wrapper(): reset().
Constructed ==
    /\ m_training = setUniform(<<>>)
    /\ m_sampling = setUniform(<<>>)
    /\ m_samplesSoFar = 0
    /\ m_nextMilestone = FirstMilestone
    /\ m_mutex = [writer |-> 0, readers |-> {}]

\* The wrapper one sample short of its second milestone, every sample so far
\* splatted with weight 0 and no call under way: the first rebuild left the
\* sampling tree uniform and the training tree refined once.
Checkpoint ==
    /\ m_training = refine(setUniform(<<>>))
    /\ m_sampling = setUniform(<<>>)
    /\ m_samplesSoFar = 2 * FirstMilestone - 1
    /\ m_nextMilestone = 2 * FirstMilestone
    /\ m_mutex = [writer |-> 0, readers |-> {}]

\* One caller, from construction.
SeqInit ==
    /\ WrapperSettings /\ NoTree /\ Constructed
    /\ deposited = m_training
    /\ pc = [t \in {1} |-> "idle"]
    /\ local = [t \in {1} |-> NoLocal]
    /\ quota = [splat |-> MaxSamples, heavy |-> MaxHeavy, read |-> MaxReads, reset |-> 0]
    /\ waiting = 0
    /\ justRefined = FALSE

\* The steps a caller of splat, sample and pdf takes.
SeqNext ==
    \/ \E t \in DOMAIN pc : CallSplat(t)
    \/ \E t \in DOMAIN pc : SplatLock(t)
    \/ \E t \in DOMAIN pc : SplatAccumulate(t)
    \/ \E t \in DOMAIN pc : SplatTarget(t)
    \/ \E t \in DOMAIN pc : SplatDensity(t)
    \/ \E t \in DOMAIN pc : SplatUnlock(t)
    \/ \E t \in DOMAIN pc : SplatCount(t)
    \/ \E t \in DOMAIN pc : SplatCheck(t)
    \/ \E t \in DOMAIN pc : StepLock(t)
    \/ \E t \in DOMAIN pc : StepBuild(t)
    \/ \E t \in DOMAIN pc : StepCopy(t)
    \/ \E t \in DOMAIN pc : StepRefine(t)
    \/ \E t \in DOMAIN pc : StepDouble(t)
    \/ \E t \in DOMAIN pc : CallSample(t)
    \/ \E t \in DOMAIN pc : SampleLock(t)
    \/ \E t \in DOMAIN pc : SampleBody(t)
    \/ \E t \in DOMAIN pc : CallPdf(t)
    \/ \E t \in DOMAIN pc : PdfLock(t)
    \/ \E t \in DOMAIN pc : PdfBody(t)

SeqSpec == SeqInit /\ [][SeqNext]_vars

\* Two callers, from the checkpoint (which SeqSpec reaches: CheckpointReached).
WInit ==
    /\ WrapperSettings /\ NoTree /\ Checkpoint
    /\ deposited = m_training
    /\ pc = [t \in {1, 2} |-> "idle"]
    /\ local = [t \in {1, 2} |-> NoLocal]
    /\ quota = [splat |-> MaxCalls, heavy |-> MaxHeavy, read |-> MaxReads, reset |-> MaxResets]
    /\ waiting = 0
    /\ justRefined = FALSE

\* The steps of SeqNext, and those a caller of reset takes.
WNext ==
    \/ SeqNext
    \/ \E t \in DOMAIN pc : CallReset(t)
    \/ \E t \in DOMAIN pc : ResetLock(t)
    \/ \E t \in DOMAIN pc : ResetBody(t)

WSpec == WInit /\ [][WNext]_vars

\* One caller, from the checkpoint, who between its calls of splat, sample, pdf
\* and reset also assigns another wrapper to the wrapper and writes the sampling
\* tree through sampling().  Neither takes the lock: made while another caller
\* is inside a call they race with it, and these behaviours hold no such race.
AssignInit ==
    /\ WrapperSettings /\ NoTree /\ Checkpoint
    /\ deposited = m_training
    /\ pc = [t \in {1} |-> "idle"]
    /\ local = [t \in {1} |-> NoLocal]
    /\ quota = [splat |-> MaxAssignCalls, heavy |-> MaxHeavy, read |-> MaxReads,
                reset |-> MaxResets, assign |-> MaxAssigns]
    /\ waiting = 0
    /\ justRefined = FALSE

\* The steps of WNext, those of a caller of operator=, and the write through
\* sampling().
AssignNext ==
    \/ WNext
    \/ \E t \in DOMAIN pc : CallAssign(t)
    \/ \E t \in DOMAIN pc : AssignSettings(t)
    \/ \E t \in DOMAIN pc : AssignSampling(t)
    \/ \E t \in DOMAIN pc : AssignTraining(t)
    \/ \E t \in DOMAIN pc : AssignCount(t)
    \/ \E t \in DOMAIN pc : AssignMilestone(t)
    \/ \E t \in DOMAIN pc : SamplingSplat(t)

AssignSpec == AssignInit /\ [][AssignNext]_vars

\* The single caller of SeqSpec stands at the checkpoint.
CheckpointReached ==
    /\ Checkpoint /\ pc = [t \in {1} |-> "idle"] /\ deposited = m_training
    /\ waiting = 0 /\ ~justRefined

\* ------------------------------------------------------------ properties of the wrapper
Callers == DOMAIN pc
\* The caller runs the rebuild of step(): build, copy, refine, doubling.
InStep(t) == pc[t] \in {"step_build", "step_copy", "step_refine", "step_double"}
\* The caller holds the lock exclusively: in the rebuild of step() or in reset().
InExclusive(t) == InStep(t) \/ pc[t] = "reset_body"
\* The caller executes a deposit, a sample or a pdf.
InShared(t) ==
    pc[t] \in {"splat_leaf", "splat_target", "splat_density", "sample_body", "pdf_body"}
\* The caller waits for the shared lock.
AtSharedLock(t) == pc[t] \in {"splat_lock", "sample_lock", "pdf_lock"}

\* C5: with a single caller the rebuild of step() runs exactly when
\* samplesSoFar is 1024, 2048, ...: whenever the caller is in the rebuild,
\* samplesSoFar is the milestone, which is 1024 doubled some number of times.
C5_RebuildAtMilestone ==
    \A t \in Callers :
        InStep(t) => /\ m_samplesSoFar = m_nextMilestone
                     /\ m_nextMilestone \in {FirstMilestone, 2 * FirstMilestone}

\* The largest density held by a node of the pool.
MaxDensity(nodes) ==
    LET ds == {nodes[i].density : i \in 1 .. Len(nodes)}
    IN  CHOOSE m \in ds : \A e \in ds : FLe(e, m)

\* uniformProb <= p <= uniformProb + (1 - uniformProb) * the largest density.
PdfInBounds(p, sampling) ==
    /\ FGe(p, uniformProb)
    /\ FLe(p, FAdd(uniformProb, FMul(FSub(One, uniformProb), MaxDensity(sampling))))

\* C6: in every reachable state of the wrapper, Wrapper::pdf(x) lies between
\* uniformProb and uniformProb + (1 - uniformProb) * the largest density of the
\* sampling tree, for every x; and every value a call of pdf returned is at
\* least uniformProb.
C6_PdfBounds ==
    /\ \A c \in {Zero, Frac(1, 4), Half, Frac(3, 4)} :
          PdfInBounds(WrapperPdf(m_sampling, <<c>>), m_sampling)
    /\ \A t \in Callers :
          (local[t].ret # <<>> /\ local[t].ret.call = "pdf") => FGe(local[t].ret.pdf, uniformProb)

\* A call of pdf returned less than 1 from a sampling tree that a rebuild left
\* with several nodes.
C6_Witness ==
    \E t \in Callers :
        /\ local[t].ret # <<>> /\ local[t].ret.call = "pdf"
        /\ Len(m_sampling) > 1
        /\ FLt(local[t].ret.pdf, One)
        /\ local[t].ret.pdf = WrapperPdf(m_sampling, local[t].ret.x)

\* C7: the accumulators of a leaf lose no contribution of concurrent splats:
\* whenever no deposit is under way, every node of the training tree holds the
\* weight, value and density that indivisible additions would have left.
C7_NoLostDeposit ==
    (\A t \in Callers : pc[t] \notin {"splat_leaf", "splat_target", "splat_density"}) =>
        /\ Len(m_training) = Len(deposited)
        /\ \A i \in 1 .. Len(m_training) :
               /\ m_training[i].weight = deposited[i].weight
               /\ m_training[i].value = deposited[i].value
               /\ m_training[i].density = deposited[i].density

\* C8: the sampling tree changes only in the copy of step() and in reset(): no
\* other step of any call of the wrapper, and no write from outside splat,
\* step() and reset(), changes it.
C8_SamplingFrame ==
    [][m_sampling' # m_sampling =>
          \E t \in Callers : pc[t] \in {"step_copy", "reset_body"} /\ pc'[t] # pc[t]]_vars

\* C9: while a caller is in the rebuild of step() or reseats the trees in
\* reset(), no other caller executes a deposit, a sample, a pdf, a rebuild or a
\* reset.
C9_Exclusion ==
    \A t \in Callers : \A o \in Callers \ {t} :
        InExclusive(t) => ~InShared(o) /\ ~InExclusive(o)

\* A caller is in the rebuild of step() while the other waits for the shared
\* lock, and the mutex records the exclusive holder.
C9_Witness ==
    \E t \in Callers : \E o \in Callers \ {t} :
        /\ pc[t] = "step_refine" /\ AtSharedLock(o)
        /\ m_mutex.writer = t

\* ---------------------------------------------------------------------------
\* Properties of the node pool.

\* The places (internal node p, child slot c) that hold the index i.
Referrers(nodes, i) ==
    {pc_ \in Internal(nodes) \X (0 .. Arity - 1) : Child(At(nodes, pc_[1]), pc_[2]) = i}

\* C11: after any sequence of construction, splat, build and refine the pool is
\* never empty, it holds 1 + 2^D * (number of internal nodes) nodes, and every
\* node but the root is the child of exactly one internal node, in one slot.
C11_NodeCount ==
    /\ Len(m_nodes) >= 1
    /\ Len(m_nodes) = 1 + Arity * Cardinality(Internal(m_nodes))
    /\ \A i \in 1 .. Len(m_nodes) - 1 : Cardinality(Referrers(m_nodes, i)) = 1

\* A build() that truncated the root of a deeper tree: one node is left, holding
\* weight, with the child indices of the subtree it lost still in its slots.
C11_Witness ==
    /\ Built /\ Len(m_nodes) = 1
    /\ FGt(m_nodes[1].weight, Zero)
    /\ \E c \in 1 .. Arity - 1 : Child(m_nodes[1], c) # 0

\* C15: index 0 is the root, and every child index an internal node stores is
\* greater than the node's own index and less than the size of the pool.
C15_ChildrenAhead ==
    \A i \in Internal(m_nodes) : \A c \in 0 .. Arity - 1 :
        /\ Child(At(m_nodes, i), c) > i
        /\ Child(At(m_nodes, i), c) < Len(m_nodes)

\* A refine() that split a leaf below the root: the children it appended follow
\* every node of the pool.
C15_Witness ==
    /\ op = "refine" /\ Len(m_nodes) >= 1 + 2 * Arity
    /\ \E i \in Internal(m_nodes) : i > 0

\* C16: in every reachable tree every leaf has all its 2^D child indices zero.
C16_LeafChildrenZero ==
    \A i \in 0 .. Len(m_nodes) - 1 :
        isLeaf(At(m_nodes, i)) => \A c \in 0 .. Arity - 1 : Child(At(m_nodes, i), c) = 0

\* ---------------------------------------------------------------------------
\* Two trees of the same settings given the same deposits in opposite orders.

\* The deposits splat() is given: a point, a value and a weight.
Deposits == [x : SplatPoints, value : Values, weight : Weights]

\* The pool after the deposit a, then the deposit b.
SplatBoth(nodes, a, b) ==
    splat(splat(nodes, a.x, a.value, a.weight), b.x, b.value, b.weight)

PairInit ==
    /\ TreeInit
    /\ swapped = m_nodes
    /\ stream = NoStream
    /\ loaded = NoneLoaded
    /\ NoCall

\* splat(a); splat(b) on the tree under test and splat(b); splat(a) on the second.
SplatPair ==
    /\ nSplats + 2 <= MaxSplats
    /\ \E a \in Deposits, b \in Deposits :
        /\ m_nodes' = SplatBoth(m_nodes, a, b)
        /\ swapped' = SplatBoth(swapped, b, a)
        /\ arg' = b
    /\ op' = "splat"
    /\ ret' = <<>>
    /\ nSplats' = nSplats + 2
    /\ UNCHANGED <<settingVars, wrapperVars, callVars, stream, loaded, nRebuilds>>

\* build() on both trees.
BuildPair ==
    /\ nRebuilds < MaxRebuilds
    /\ m_nodes' = build(m_nodes)
    /\ swapped' = build(swapped)
    /\ op' = "build"
    /\ ret' = <<>>
    /\ nRebuilds' = nRebuilds + 1
    /\ UNCHANGED <<settingVars, wrapperVars, callVars, stream, loaded, arg, nSplats>>

\* refine() on both trees.
RefinePair ==
    /\ nRebuilds < MaxRebuilds
    /\ m_nodes' = refine(m_nodes)
    /\ swapped' = refine(swapped)
    /\ op' = "refine"
    /\ arg' = <<>>
    /\ ret' = <<>>
    /\ nRebuilds' = nRebuilds + 1
    /\ UNCHANGED <<settingVars, wrapperVars, callVars, stream, loaded, nSplats>>

PairNext == SplatPair \/ BuildPair \/ RefinePair

PairSpec == PairInit /\ [][PairNext]_vars

\* C12: on a tree of fixed structure two deposits commute: made in either order
\* they leave the same accumulators in every leaf, and build() then leaves the
\* same tree.
C12_SplatsCommute == m_nodes = swapped

\* Two different deposits were made into a tree of several leaves and both
\* reached the same leaf, and build() kept the tree.
C12_Witness ==
    /\ Built /\ nSplats = 2 /\ Len(m_nodes) > 1
    /\ \E i \in 1 .. Len(m_nodes) :
          isLeaf(m_nodes[i]) /\ FGe(m_nodes[i].weight, FromInt(2))

\* ---------------------------------------------------------------------------
\* build() and refine().

\* The uniform tree: one node, a leaf, of density 1 and weight 0.
Uniform(nodes) ==
    /\ Len(nodes) = 1
    /\ isLeaf(nodes[1])
    /\ nodes[1].density = One
    /\ nodes[1].weight = Zero

\* C13: build() on a tree that holds no deposit (fresh, or just refined) leaves
\* the uniform tree, with leaf reweighting on and off.
C13_EmptyBuildUniform ==
    [][(op \in {"new", "refine"} /\ op' = "build") => Uniform(m_nodes')]_vars

\* A tree that had received deposits was refined and, with no deposit since,
\* built: the uniform tree is left.
C13_Witness ==
    /\ Built /\ nSplats > 0 /\ arg = <<>>
    /\ Uniform(m_nodes)

\* ---------------------------------------------------------------------------
\* Serialisation.

\* What guiding::write(os, t) emits for an object without a write member: the
\* sizeof(T) bytes of its representation, here one token that keeps the type.
\* A Float (density; value and weight through atomic<V>::write), the size_t
\* node count and an int child index.
FloatBytes(f) == [float |-> f]
SizeBytes(n) == [size |-> n]
IntBytes(n) == [int |-> n]

\* The tokens of one node in the order TreeNode::write names them: density,
\* value, weight, then the 2^D child indices.
NodeFields == 3 + Arity
NodeBytes(node) ==
    <<FloatBytes(node.density), FloatBytes(node.value), FloatBytes(node.weight)>>
        \o [c \in 1 .. Arity |-> IntBytes(node.children[c])]

\* The tokens BTreeDistribution::write names: the node count, then every node.
Encode(nodes) ==
    [k \in 1 .. 1 + Len(nodes) * NodeFields |->
        IF k = 1 THEN SizeBytes(Len(nodes))
        ELSE NodeBytes(nodes[1 + ((k - 2) \div NodeFields)])[1 + ((k - 2) % NodeFields)]]

\* The node TreeNode::read fills from the tokens that start at `from`.
NodeFrom(bytes, from) ==
    [density |-> bytes[from].float,
     value |-> bytes[from + 1].float,
     weight |-> bytes[from + 2].float,
     children |-> [c \in 1 .. Arity |-> bytes[from + 2 + c].int]]

\* The pool BTreeDistribution::read names: resize to the count, then every node.
Decode(bytes) ==
    [i \in 1 .. bytes[1].size |-> NodeFrom(bytes, 2 + (i - 1) * NodeFields)]

\* The numbers of parameters of the functions the unqualified names write and
\* read denote inside the member functions of TreeNode and BTreeDistribution:
\* lookup stops at the class, which declares write(std::ostream &) const and
\* read(std::istream &), and so hides guiding::write(std::ostream &, const T &)
\* and guiding::read(std::istream &, T &).
MemberIoParams == {1}
\* The number of arguments of the calls write(os, x) and read(is, x) in them.
IoCallArgs == 2
\* The calls have a function to name: the member functions can be instantiated.
IoWellFormed == IoCallArgs \in MemberIoParams

\* BTreeDistribution::write: the stream it leaves.
write(nodes) ==
    IF IoWellFormed THEN [state |-> "written", bytes |-> Encode(nodes)]
    ELSE [state |-> "ill-formed", bytes |-> <<>>]

\* BTreeDistribution::read: the pool it leaves in the tree it is called on.
read(is) ==
    IF IoWellFormed /\ is.state = "written"
    THEN [state |-> "read", nodes |-> Decode(is.bytes)]
    ELSE [state |-> "ill-formed", nodes |-> <<>>]

\* t.write(os) on the tree under test.
Write ==
    /\ stream' = write(m_nodes)
    /\ loaded' = NoneLoaded
    /\ UNCHANGED <<settingVars, treeVars, wrapperVars, callVars, swapped>>

\* u.read(is) on another tree, from the stream write() left.
Read ==
    /\ stream # NoStream
    /\ loaded' = read(stream)
    /\ UNCHANGED <<settingVars, treeVars, wrapperVars, callVars, swapped, stream>>

IoNext == Splat \/ Build \/ Refine \/ Write \/ Read

IoSpec == Init /\ [][IoNext]_vars

\* C14: write() followed by read() into another tree reproduces the node pool
\* (the count and every node's density, value, weight and child indices), and a
\* write() of the tree read emits the same bytes.
C14_RoundTrip ==
    (loaded # NoneLoaded /\ stream = write(m_nodes)) =>
        /\ loaded.state = "read"
        /\ loaded.nodes = m_nodes
        /\ write(loaded.nodes) = stream

\* C17: with leaf reweighting off build() accepts every child, in every
\* dimension: the density of an internal node is the sum of the densities of
\* its 2^D children divided by 2^D.
C17_NaiveMean ==
    (Built /\ ~m_leafReweighting) =>
        \A i \in Internal(m_nodes) :
            At(m_nodes, i).density = FDiv(ChildDensitySum(m_nodes, i, 0), FromInt(Arity))

\* The sum of the weights of the leaves of the pool from node `from` (1-based) on.
RECURSIVE LeafWeightFrom(_, _)
LeafWeightFrom(nodes, from) ==
    IF from > Len(nodes) THEN Zero
    ELSE FAdd(IF isLeaf(nodes[from]) THEN nodes[from].weight ELSE Zero,
              LeafWeightFrom(nodes, from + 1))

\* The filter box of a deposit at x, of the side of the leaf that holds x, lies
\* inside the unit cube.
BoxInside(nodes, x) ==
    LET size == Frac(1, Pow2(indexAt(nodes, x).depth))
    IN  \A d \in 1 .. Dimension :
            /\ FGe(FSub(x[d], FDiv(size, FromInt(2))), Zero)
            /\ FLe(FAdd(x[d], FDiv(size, FromInt(2))), One)

\* C18: with filtering on, a deposit of weight w whose filter box lies inside the
\* unit cube adds weights to the leaves that sum to w, in every dimension.
C18_FilteredSum ==
    [][(nSplats' = nSplats + 1 /\ m_doFiltering /\ BoxInside(m_nodes, arg'.x)) =>
          FSub(LeafWeightFrom(m_nodes', 1), LeafWeightFrom(m_nodes, 1)) = arg'.weight]_vars

\* The sum of the weights of the children of node `index` from `child` on.
RECURSIVE ChildWeightSum(_, _, _)
ChildWeightSum(nodes, index, child) ==
    IF child = Arity THEN Zero
    ELSE FAdd(At(nodes, Child(At(nodes, index), child)).weight,
              ChildWeightSum(nodes, index, child + 1))

\* A leaf that received enough weight for leaf reweighting to keep it.
Kept(node) == FGe(node.weight, MinWeight)

\* What the first pass of build() makes of a node that is not valid.
NotValid ==
    [valid |-> FALSE, partly |-> FALSE, density |-> Zero, value |-> Zero, weight |-> Invalid]

\* What it makes of an internal node, sums holding the number of its valid
\* children and the sums of their densities, values and weights: the node is
\* not valid when none is, and holds their mean and the sum of their weights
\* when some are; partly tells that some are not.
MeanOfValid(sums) ==
    IF sums.count = 0 THEN NotValid
    ELSE [valid |-> TRUE, partly |-> sums.count < Arity,
          density |-> FDiv(sums.density, FromInt(sums.count)),
          value |-> FDiv(sums.value, FromInt(sums.count)),
          weight |-> sums.weight]

\* One more child in the sums, first being what the first pass makes of it.
AddValid(first, sums) ==
    IF ~first.valid THEN sums
    ELSE [count |-> sums.count + 1,
          density |-> FAdd(first.density, sums.density),
          value |-> FAdd(first.value, sums.value),
          weight |-> FAdd(first.weight, sums.weight)]

\* The first pass of build() with leaf reweighting, as the specification words
\* it: a leaf is valid when its weight is at least 1e-3 and then holds its
\* density and its value over its weight; an internal node holds the mean of
\* its valid children.  ValidSums is the sums over the children from `child` on.
RECURSIVE FirstPass(_, _)
RECURSIVE ValidSums(_, _, _)
FirstPass(nodes, index) ==
    LET node == At(nodes, index)
    IN  IF ~isLeaf(node) THEN MeanOfValid(ValidSums(nodes, index, 0))
        ELSE IF ~Kept(node) THEN NotValid
        ELSE [valid |-> TRUE, partly |-> FALSE,
              density |-> IF m_secondMoment THEN Sqrt(FDiv(node.density, node.weight))
                          ELSE FDiv(node.density, node.weight),
              value |-> FDiv(node.value, node.weight),
              weight |-> node.weight]

ValidSums(nodes, index, child) ==
    IF child = Arity
    THEN [count |-> 0, density |-> Zero, value |-> Zero, weight |-> Zero]
    ELSE AddValid(FirstPass(nodes, Child(At(nodes, index), child)),
                  ValidSums(nodes, index, child + 1))

\* build() returns to the uniform tree: the first pass left the root not valid,
\* or with no weight, or with no density.
Fallback(nodes) ==
    \/ ~FirstPass(nodes, 0).valid
    \/ FLe(FirstPass(nodes, 0).weight, Zero)
    \/ FEq(FirstPass(nodes, 0).density, Zero)

\* What build() with leaf reweighting leaves: no node marked invalid, no leaf of
\* weight below 1e-3, and in every internal node the sum of its children's
\* weights.
Pruned(nodes) ==
    /\ \A i \in 1 .. Len(nodes) : FGe(nodes[i].weight, Zero)
    /\ \A i \in 1 .. Len(nodes) : isLeaf(nodes[i]) => Kept(nodes[i])
    /\ \A i \in Internal(nodes) : At(nodes, i).weight = ChildWeightSum(nodes, i, 0)

\* Node i of the pool `new` is what build() is to make of node j of the pool
\* `old`, and so on below them: it holds what the first pass makes of node j,
\* its density over norm, and it is a leaf when node j is one or when some of
\* the children of node j are valid and some are not.
RECURSIVE PrunedFrom(_, _, _, _, _)
PrunedFrom(new, i, old, j, norm) ==
    /\ FirstPass(old, j).valid
    /\ At(new, i).weight = FirstPass(old, j).weight
    /\ At(new, i).value = FirstPass(old, j).value
    /\ At(new, i).density = FDiv(FirstPass(old, j).density, norm)
    /\ isLeaf(At(new, i)) <=> (isLeaf(At(old, j)) \/ FirstPass(old, j).partly)
    /\ ~isLeaf(At(new, i)) =>
          \A c \in 0 .. Arity - 1 :
              PrunedFrom(new, Child(At(new, i), c), old, Child(At(old, j), c), norm)

\* The same for the internal nodes of which some children are valid and some
\* are not, and for nothing else: each is a leaf in `new` that holds the mean of
\* the values and (before the division by norm) of the densities of its valid
\* children, and the sum of their weights.
RECURSIVE TruncatedFrom(_, _, _, _, _)
TruncatedFrom(new, i, old, j, norm) ==
    IF isLeaf(At(old, j)) THEN TRUE
    ELSE IF FirstPass(old, j).valid /\ FirstPass(old, j).partly
    THEN /\ isLeaf(At(new, i))
         /\ At(new, i).weight = FirstPass(old, j).weight
         /\ At(new, i).value = FirstPass(old, j).value
         /\ FMul(At(new, i).density, norm) = FirstPass(old, j).density
    ELSE ~isLeaf(At(new, i)) =>
            \A c \in 0 .. Arity - 1 :
                TruncatedFrom(new, Child(At(new, i), c), old, Child(At(old, j), c), norm)

\* ------------------------------------------------------------ the tree, light deposits
\* The weights of the deposits: 1, and one below the 1e-3 under which leaf
\* reweighting takes a leaf to have received too few samples.
LightWeight == Frac(1, 1024)
PruneWeights == {One, LightWeight}

\* splat(x, value, weight) with a weight of PruneWeights.
SplatWeighted ==
    /\ nSplats < MaxSplats
    /\ \E x \in SplatPoints, value \in Values, weight \in PruneWeights :
        /\ m_nodes' = splat(m_nodes, x, value, weight)
        /\ arg' = [x |-> x, value |-> value, weight |-> weight]
    /\ op' = "splat"
    /\ ret' = <<>>
    /\ nSplats' = nSplats + 1
    /\ UNCHANGED <<settingVars, wrapperVars, ioVars, callVars, nRebuilds>>

\* build() of a pool that has been refined or has received a deposit since it
\* was last built.
BuildAfresh == op # "build" /\ Build

\* The tree with leaf reweighting on.
PruneInit == Init /\ m_leafReweighting

PruneNext == SplatWeighted \/ BuildAfresh \/ Refine

PruneSpec == PruneInit /\ [][PruneNext]_vars

\* A build() with leaf reweighting was made in this step.
Reweighted == nRebuilds' = nRebuilds + 1 /\ op' = "build" /\ m_leafReweighting

\* C19, as stated: with leaf reweighting on, build() leaves no leaf of weight
\* below 1e-3 in the new pool (the leaf of the uniform tree aside), no node of
\* weight -1 and in every internal node the sum of its children's weights, and
\* every internal node of which some children are valid and some are not
\* becomes a leaf that holds the mean of the valid ones and the sum of their
\* weights.
C19_AsStated ==
    [][Reweighted =>
          /\ Uniform(m_nodes') \/ Pruned(m_nodes')
          /\ TruncatedFrom(m_nodes', 0, m_nodes, 0, FirstPass(m_nodes, 0).density)]_vars

\* C19, amended: with leaf reweighting on, build() leaves the uniform tree when
\* its first pass leaves the root not valid, without weight or without density;
\* otherwise it leaves no leaf of weight below 1e-3, no node of weight -1, in
\* every internal node the sum of its children's weights, and of every node the
\* first pass kept what the first pass made of it, its density over the root's:
\* a leaf that holds the mean of its valid children and the sum of their
\* weights where some children were valid and some were not.
C19_Pruning ==
    [][Reweighted =>
          IF Fallback(m_nodes) THEN Uniform(m_nodes')
          ELSE /\ Pruned(m_nodes')
               /\ PrunedFrom(m_nodes', 0, m_nodes, 0, FirstPass(m_nodes, 0).density)]_vars

\* A build() with leaf reweighting, the third of refine(), refine(), build(),
\* that kept the root and turned one of its children, an internal node with a
\* valid child and one that was not, into a leaf (its slots past the first
\* still hold the children it had), after a deposit of the light weight.
C19_Witness ==
    /\ Built /\ m_leafReweighting /\ nRebuilds = 3
    /\ arg # <<>> /\ arg.weight = LightWeight
    /\ ~isLeaf(m_nodes[1])
    /\ \E i \in 2 .. Len(m_nodes) :
          /\ isLeaf(m_nodes[i])
          /\ \E c \in 1 .. Arity - 1 : Child(m_nodes[i], c) # 0

\* The internal node that holds the index i in one of its slots.
ParentOf(nodes, i) ==
    CHOOSE p \in Internal(nodes) : \E c \in 0 .. Arity - 1 : Child(At(nodes, p), c) = i

\* 2^(D * k)
RECURSIVE ArityPow(_)
ArityPow(k) == IF k = 0 THEN 1 ELSE Arity * ArityPow(k - 1)

\* The nodes of the refined pool from node i down, each with its depth (the root
\* at depth 0) and its origin: the node of the pool before refine(), of `bound`
\* nodes, that it is or that the splits of refine() copied it from.
RECURSIVE Placed(_, _, _, _, _)
Placed(nodes, i, depth, origin, bound) ==
    LET from == IF i < bound THEN i ELSE origin
        here == {[index |-> i, depth |-> depth, origin |-> from]}
    IN  IF isLeaf(At(nodes, i)) THEN here
        ELSE here \cup UNION {Placed(nodes, Child(At(nodes, i), c), depth + 1, from, bound) :
                                  c \in 0 .. Arity - 1}

\* C20: refine() splits the leaf at depth k exactly when its density over
\* 2^(D * k) is at least the split threshold (the children a split creates hold
\* the density of the leaf split), removes or collapses no internal node, and
\* leaves every leaf with density 0, value 0 and weight 0.
C20_RefineSplits ==
    [][(nRebuilds' = nRebuilds + 1 /\ op' = "refine") =>
          /\ Len(m_nodes') >= Len(m_nodes)
          /\ \A i \in Internal(m_nodes) : At(m_nodes', i) = At(m_nodes, i)
          /\ \A p \in Placed(m_nodes', 0, 0, 0, Len(m_nodes)) :
                isLeaf(At(m_nodes, p.origin)) =>
                    (~isLeaf(At(m_nodes', p.index))
                        <=> FGe(FDiv(At(m_nodes, p.origin).density,
                                     FromInt(ArityPow(p.depth))),
                                m_splitThreshold))
          /\ \A i \in 0 .. Len(m_nodes') - 1 :
                isLeaf(At(m_nodes', i)) =>
                    /\ At(m_nodes', i).density = Zero
                    /\ At(m_nodes', i).value = Zero
                    /\ At(m_nodes', i).weight = Zero]_vars

\* A refine() of a built tree that split a leaf and then a child the split made,
\* and reset the leaves that held deposits.
C20_Witness ==
    /\ op = "refine" /\ nSplats > 0 /\ nRebuilds >= 2
    /\ \E i \in Internal(m_nodes) :
          /\ i > 0
          /\ At(m_nodes, ParentOf(m_nodes, i)).density = At(m_nodes, i).density
          /\ At(m_nodes, ParentOf(m_nodes, i)).weight = At(m_nodes, i).weight
          /\ FGt(At(m_nodes, i).weight, Zero)

\* ------------------------------------------------------------ refine(), one activation at a time
\* The split thresholds set through splitThreshold(): the accessor hands out a
\* reference and takes any Float.
SplitThresholds == {One, Zero}

\* An activation of refine(index, scale): child is the position of its loop over
\* the children, -1 before the test of isLeaf.
Activation(index, scale) == [index |-> index, scale |-> scale, child |-> -1]

Top == callStack[Len(callStack)]
SetTop(frame) == [callStack EXCEPT ![Len(callStack)] = frame]
Pop == SubSeq(callStack, 1, Len(callStack) - 1)

\* A tree of default settings but for the split threshold, no call under way.
CallInit ==
    /\ Dimension \in {1, 2}
    /\ m_splitThreshold \in SplitThresholds
    /\ m_leafReweighting = TRUE
    /\ m_doFiltering = TRUE
    /\ m_secondMoment = FALSE
    /\ m_nodes = setUniform(<<>>)
    /\ op = "new"
    /\ arg = <<>>
    /\ ret = <<>>
    /\ nSplats = 0
    /\ nRebuilds = 0
    /\ NoWrapper /\ NoIo /\ NoCall

\* splat() and build() between the calls of refine().
QuietSplat == callState = "idle" /\ Splat
QuietBuild == callState = "idle" /\ Build

\* The caller calls refine(): the activation refine(0, 1).
RefineCall ==
    /\ callState = "idle"
    /\ nRebuilds < MaxRebuilds
    /\ callStack' = <<Activation(0, 1)>>
    /\ callState' = "running"
    /\ op' = "refine"
    /\ arg' = <<>>
    /\ ret' = <<>>
    /\ nRebuilds' = nRebuilds + 1
    /\ UNCHANGED <<settingVars, wrapperVars, ioVars, m_nodes, nSplats>>

\* The head of refine(index, scale): a leaf whose criterion reaches the threshold
\* is split, any other leaf is reset and the activation returns.
RefineTest ==
    /\ callState = "running"
    /\ Top.child = -1
    /\ LET index == Top.index
           criterion == FDiv(At(m_nodes, index).density, FromInt(Top.scale))
       IN  IF isLeaf(At(m_nodes, index))
           THEN IF FGe(criterion, m_splitThreshold)
                THEN /\ m_nodes' = split(m_nodes, index)
                     /\ callStack' = SetTop([Top EXCEPT !.child = 0])
                     /\ UNCHANGED callState
                ELSE /\ m_nodes' = [m_nodes EXCEPT ![index + 1] = NodeReset(@)]
                     /\ callStack' = Pop
                     /\ callState' = IF Len(callStack) = 1 THEN "idle" ELSE "running"
           ELSE /\ callStack' = SetTop([Top EXCEPT !.child = 0])
                /\ UNCHANGED <<m_nodes, callState>>
    /\ UNCHANGED <<settingVars, wrapperVars, ioVars, op, arg, ret, nSplats, nRebuilds>>

\* The loop of refine over the children: refine(children[child], scale * Arity),
\* a new activation when the stack holds one more.
RefineRecurse ==
    /\ callState = "running"
    /\ Top.child >= 0 /\ Top.child < Arity
    /\ IF Len(callStack) < MaxCallDepth
       THEN /\ callStack' = Append(SetTop([Top EXCEPT !.child = @ + 1]),
                                   Activation(Child(At(m_nodes, Top.index), Top.child),
                                              Top.scale * Arity))
            /\ UNCHANGED callState
       ELSE /\ callState' = "exhausted"
            /\ UNCHANGED callStack
    /\ UNCHANGED <<settingVars, wrapperVars, ioVars, treeVars>>

\* The end of the loop: the activation returns.
RefineReturn ==
    /\ callState = "running"
    /\ Top.child = Arity
    /\ callStack' = Pop
    /\ callState' = IF Len(callStack) = 1 THEN "idle" ELSE "running"
    /\ UNCHANGED <<settingVars, wrapperVars, ioVars, treeVars>>

CallNext ==
    \/ QuietSplat
    \/ QuietBuild
    \/ RefineCall
    \/ RefineTest
    \/ RefineRecurse
    \/ RefineReturn

CallSpec == CallInit /\ [][CallNext]_vars

\* C21: refine() returns for every split threshold: its recursion into the
\* children it splits off never goes deeper than the call stack holds.
C21_RefineReturns == callState # "exhausted"

\* ------------------------------------------------------------ many callers
\* A followed caller that stands before the lock of step() is followed no
\* longer: it is counted among those standing there, and the one followed in
\* its place is a caller that has not called yet.
Park(t) ==
    /\ pc[t] = "step_lock"
    /\ waiting' = waiting + 1
    /\ Goto(t, "idle")
    /\ UNCHANGED <<treeFrame, justRefined, m_sampling, m_training, deposited, m_samplesSoFar,
                   m_nextMilestone, m_mutex, local, quota>>

\* One of the callers standing before the lock of step() goes on: the whole of
\* step(), which runs under the exclusive lock.
AnyStep ==
    /\ Running
    /\ waiting > 0
    /\ quota.step > 0
    /\ CanLockExclusive(m_mutex)
    /\ waiting' = waiting - 1
    /\ quota' = [quota EXCEPT !.step = @ - 1]
    /\ IF m_samplesSoFar < m_nextMilestone
       THEN UNCHANGED <<m_sampling, m_training, deposited, m_nextMilestone, justRefined>>
       ELSE /\ m_sampling' = build(m_training)
            /\ m_training' = refine(build(m_training))
            /\ deposited' = refine(build(deposited))
            /\ m_nextMilestone' = m_nextMilestone * 2
            /\ justRefined' = TRUE
    /\ UNCHANGED <<treeFrame, m_samplesSoFar, m_mutex, pc, local>>

\* From construction, callers that are let run as far as the lock of step() and
\* no further, one after the other, each through the steps of splat.
GatherInit ==
    /\ WrapperSettings /\ NoTree /\ Constructed
    /\ deposited = m_training
    /\ pc = [t \in {1} |-> "idle"]
    /\ local = [t \in {1} |-> NoLocal]
    /\ quota = [splat |-> 2 * FirstMilestone, heavy |-> 1]
    /\ waiting = 0
    /\ justRefined = FALSE

GatherNext ==
    \/ \E t \in DOMAIN pc : CallSplat(t)
    \/ \E t \in DOMAIN pc : SplatLock(t)
    \/ \E t \in DOMAIN pc : SplatAccumulate(t)
    \/ \E t \in DOMAIN pc : SplatTarget(t)
    \/ \E t \in DOMAIN pc : SplatDensity(t)
    \/ \E t \in DOMAIN pc : SplatUnlock(t)
    \/ \E t \in DOMAIN pc : SplatCount(t)
    \/ \E t \in DOMAIN pc : SplatCheck(t)
    \/ \E t \in DOMAIN pc : Park(t)

GatherSpec == GatherInit /\ [][GatherNext]_vars

\* The wrapper after 2048 splats, one of them of weight 1, none of whose callers
\* has taken the lock of step() yet: the first milestone stands, and the
\* samples counted are twice as many.
Gathered ==
    /\ m_training = splat(setUniform(<<>>), <<Frac(1, 4)>>, Target(One), One)
    /\ m_sampling = setUniform(<<>>)
    /\ m_samplesSoFar = 2 * FirstMilestone
    /\ m_nextMilestone = FirstMilestone
    /\ m_mutex = [writer |-> 0, readers |-> {}]

\* GatherSpec reaches it, with the callers of the last 1024 splats standing
\* before the lock of step(), the last of them followed.
GatheredReached ==
    /\ Gathered /\ waiting = FirstMilestone - 1
    /\ pc = [t \in {1} |-> "step_lock"]
    /\ local = [t \in {1} |-> NoLocal]
    /\ deposited = m_training /\ ~justRefined

\* Two callers at a time, from construction, through the same steps.
RaceInit ==
    /\ WrapperSettings /\ NoTree /\ Constructed
    /\ deposited = m_training
    /\ pc = [t \in {1, 2} |-> "idle"]
    /\ local = [t \in {1, 2} |-> NoLocal]
    /\ quota = [splat |-> MaxCalls, heavy |-> 1]
    /\ waiting = 0
    /\ justRefined = FALSE

RaceSpec == RaceInit /\ [][GatherNext]_vars

\* The deposit of weight 1 was made while a caller that had read the density of
\* the leaf was about to write it: its density is lost, its weight and its
\* value are there.
DensityLost ==
    /\ \A t \in DOMAIN pc : pc[t] = "idle"
    /\ m_training[1].weight = deposited[1].weight
    /\ m_training[1].value = deposited[1].value
    /\ m_training[1].density = One
    /\ deposited[1].density # One

\* The state GatherSpec reaches, a second of the callers that stand before the
\* lock followed step by step in place of being counted.
CrowdInit ==
    /\ WrapperSettings /\ NoTree /\ Gathered
    /\ deposited = m_training
    /\ pc = [t \in {1, 2} |-> "step_lock"]
    /\ local = [t \in {1, 2} |-> NoLocal]
    /\ quota = [splat |-> MaxCalls, heavy |-> MaxHeavy, read |-> MaxReads, reset |-> 0,
                step |-> MaxSteps]
    /\ waiting = FirstMilestone - 2
    /\ justRefined = FALSE

CrowdNext ==
    \/ SeqNext
    \/ AnyStep

CrowdSpec == CrowdInit /\ [][CrowdNext]_vars

\* A caller passes the second look of step() and starts the rebuild.
RebuildBegins ==
    \/ \E t \in Callers : pc[t] = "step_lock" /\ pc'[t] = "step_build"
    \/ waiting' = waiting - 1 /\ m_nextMilestone' # m_nextMilestone

\* C22: callers that raced past the same milestone rebuild once: a rebuild of
\* step() never begins while no deposit was made into the training tree since
\* the rebuild before it.
C22_RebuildOnce == [][RebuildBegins => ~justRefined]_vars

\* ------------------------------------------------------------ the pdf of Wrapper::sample
\* The call of sample that caller t made returns in this step.
SampleReturns(t) ==
    /\ local[t].ret = <<>>
    /\ local'[t].ret # <<>>
    /\ local'[t].ret.call = "sample"
    /\ local'[t].ret.aborted = Returned

\* C23: Wrapper::sample returns the density of the mixture at the point it
\* returns, uniformProb + (1 - uniformProb) * the density of the sampling tree
\* there, which is what Wrapper::pdf returns for that point, in the uniform
\* branch and in the tree branch; with uniformProb = 1 it returns 1 and the
\* point it was given.
C23_SampleReturnsMixture ==
    [][\A t \in Callers :
          SampleReturns(t) =>
              /\ local'[t].ret.pdf = WrapperPdf(m_sampling, local'[t].ret.x)
              /\ FEq(uniformProb, One) =>
                    local'[t].ret.pdf = One /\ local'[t].ret.x = local'[t].ret.in]_vars

====
